---- MODULE Spec2Model ----
(***************************************************************************)
(* A model of the browser adapters of jazz (jazz-browser, the passphrase   *)
(* and demo auth providers) and of the sync scenario of the cojson tests.  *)
(*                                                                         *)
(* The module holds several specifications over one set of variables; each *)
(* one moves its own group of variables and leaves the others unchanged:   *)
(*   SpecSession / FairSpecSession  getSessionHandleFor, several handles   *)
(*                                  of several tabs on one device          *)
(*   SpecNode                       createBrowserNode in one tab: the auth *)
(*                                  provider's createNode, the session     *)
(*                                  provider, the websocket reconnect loop *)
(*                                  and done()                             *)
(*   SpecReconnect                  the same with stored credentials       *)
(*   SpecWs                         websocketReadableStream and            *)
(*                                  websocketWritableStream of one socket, *)
(*                                  with time                              *)
(*   SpecSync, FairSpecSync         two nodes joined by a duplex peer      *)
(*                                  pair, the second loading from the      *)
(*                                  first                                  *)
(*   SpecQuery, FairSpecQuery       one query subscription on a map that   *)
(*                                  comes to reference a sub-map           *)
(*   SpecInvite                     createInviteLink and parseInviteLink   *)
(*                                  on one link, and                       *)
(*                                  consumeInviteLinkFromWindowLocation in *)
(*                                  a window opened with it                *)
(*   SpecBlob                       createBinaryStreamFromBlob on one     *)
(*                                  blob, readBlobFromBinaryStream on its  *)
(*                                  stream at any moment                   *)
(*   SpecCrypto                     the crypto primitives, as symbolic     *)
(*                                  terms, on the inputs of their tests    *)
(*   SpecLocal                      a map and a stream of one node: edits, *)
(*                                  pushes and the views read back         *)
(*   SpecSlots                      getSessionHandleFor, two handles of a  *)
(*                                  tab while other tabs hold the slots    *)
(***************************************************************************)
EXTENDS Integers, Sequences, FiniteSets, TLC

(***************************************************************************)
(* Bounds of the model and constants of the program.                       *)
(***************************************************************************)
\* number of session handles that exist at the same time on the device
NumHandles == 2
\* for (let idx = 0; idx < 100; idx++)
NumSlots == 100
\* for (let retry = 0; retry < 2; retry++)
NumRetries == 2
\* reconnectionTimeout: initialReconnectionTimeout = 500
DefaultReconnectionTimeout == 500
\* Math.min(currentReconnectionTimeout * 2, 30000)
MaxReconnectionTimeout == 30000
\* pingTimeout = setTimeout(() => {...}, 2500)
PingTimeoutMs == 2500
\* let pingTimeout: ReturnType<typeof setTimeout> | undefined: no timer
NoTimer == -1
\* the most transactions the first node has made in the map
MaxTx == 2
\* the most transactions made in the queried map, and in its sub-map
MaxWrites == 2
\* the most inbound messages of one socket
MaxMessages == 3
\* the most messages written to the outgoing stream of one socket
MaxWritten == 3
\* the most characters of a valueHint, and of a baseURL
MaxHintLen == 2
MaxBaseLen == 2
\* the most bytes of a blob
MaxBlobLen == 3
\* MAX_RECOMMENDED_TX_SIZE, scaled down to the blobs of the model
MAX_RECOMMENDED_TX_SIZE == 2
\* the number of secrets of each kind (signer, sealer, key) drawn at random
NumSecrets == 2
\* the most values pushed to the stream
MaxPush == 2

Handles == 1..NumHandles
\* the accounts used on the device: two, which tells slots of the same account
\* from slots of different ones
Accounts == {1, 2}
Slots == 0..(NumSlots - 1)
\* the calls the driver makes on the callbacks handed to onReady; each one
\* asks for at most one session handle
Calls == 1..NumHandles
\* the reconnectionTimeout values createBrowserNode is configured with
ReconnectionTimeouts == {DefaultReconnectionTimeout, 40000}
\* time passes in steps of a fifth of the ping timeout
TickMs == PingTimeoutMs \div 5
\* the inbound messages: the server's ping records and the sync messages
MessageTypes == {"ping", "content"}
\* node (1) made the account and the map, node2 (2) loads them
Nodes == {1, 2}
CoIDs == {"account", "map"}
\* the keys and values of edit.set(key, value, "private")
Keys == {"foo", "baz"}
Values == {"bar", "qux"}

\* the value of a session promise that is not resolved, of an absent entry
NoSession == <<0, 0>>

VARIABLES
    handle,         \* handle[h]: the state of session handle h (a record)
    locks,          \* navigator.locks: the granted locks, <<account, idx, h>>
    sessionStore,   \* localStorage[accountID + "_" + idx]: <<account, idx, sid>>
    nonce,          \* nonce[a]: number of session IDs newRandomSessionID(a) minted
    issued,         \* history: every <<account, idx, sid>> a lock callback returned
    authKind,       \* "passphrase" (BrowserPassphraseAuth) or "demo" (BrowserDemoAuth)
    loggedIn,       \* localStorage[localStorageKey]: the stored account, 0 when absent
    existingUsers,  \* demo: the accounts with a "demo-auth-existing-users-" entry
    cnPc,           \* where auth.createNode is
    cnHandle,       \* the session handle createNode itself awaits (stored credentials)
    call,           \* call[c]: the state of the driver's call c (a record)
    getSessionForCount, \* history: invocations of getSessionFor
    onReadyCount,   \* history: invocations of driver.onReady
    onSignedInCount,    \* history: invocations of driver.onSignedIn
    sessionDone,    \* let sessionDone: the handle whose done it is, 0 when undefined
    initialReconnectionTimeout,
    currentReconnectionTimeout,
    shouldTryToReconnect,
    onlineListener, \* onOnline is registered for "online"
    loopPc,         \* where websocketReconnectLoop is
    waitDelay,      \* the delay of the reconnection wait in progress, 0 when none is
    nodeLive,       \* createBrowserNode has returned the handle
    nodeDone,       \* done() of the node handle has been called
    peers,          \* Object.keys(node.syncManager.peers): 0 is the storage peer,
                    \* the others are websocket peers (their id has syncAddress)
    closeRequested, \* the peers whose outgoing.close() was called
    onlineFired,    \* history: the window's "online" event was the last thing
                    \* that happened to the node
    wsState,        \* the WebSocket: "connecting", "open", "closing" (close()
                    \* was called), "aborted" (close() was called before it
                    \* was open), "failed" (it errored, its close event is
                    \* to come) or "closed"
    streamState,    \* the incoming ReadableStream: "readable", "closed", "errored"
    pingTimeout,    \* the time left on the idle timer, NoTimer when none is set
    closeListener,  \* closeListener is registered for "close"
    idle,           \* history: time since the last inbound message (since the
                    \* socket was created before the first), up to PingTimeoutMs
    gotMessage,     \* history: an inbound message has arrived
    pingTimedOut,   \* history: the idle timer has expired
    inbound,        \* history: the inbound messages in arrival order, each
                    \* with its type and whether the stream was readable then
    enqueued,       \* the messages enqueued on the controller, in order, each
                    \* by its place in inbound
    thrown,         \* history: the controller calls that threw, each with the
                    \* state the stream was in: <<"close", "errored">>, ...
    isOpen,         \* isOpen of websocketWritableStream
    initialQueue,   \* initialQueue: the messages written before "open", each
                    \* by its place among the messages written
    written,        \* history: the number of messages written to the
                    \* outgoing stream
    sent,           \* history: the calls of ws.send in order: the message and
                    \* whether the socket was open, so that it took it
    outState,       \* the outgoing WritableStream: "writable", "closed"
                    \* (closed or aborted by its writer) or "errored"
    coValues,       \* per node and covalue ID: whether the node has the header,
                    \* and the transactions of the (one) session log it has
    channel,        \* per node: the sync messages on their way to it, in order
    loadState,      \* node2's loads, per covalue ID: "unrequested", "loading",
                    \* "loaded" or "unavailable"
    mLog,           \* the transactions of the queried map M: the keys set
    sLog,           \* the transactions of the sub-map S: the values "hello" is
                    \* set to
    loaded,         \* per covalue ("M", "S"): the node has it
    watchers,       \* the covalues the subscription listens to
    pending,        \* the watched covalues that changed since the last callback
    subState,       \* "none", "active" (query was called) or "cancelled"
                    \* (unsubscribe was called)
    view,           \* the view the callback was last invoked with
    lastDefined,    \* history: the last defined view delivered
    prevDefined,    \* history: the defined view delivered before that one
    partialDelivered,  \* history: a defined view was delivered while a
                       \* required covalue was loading
    calledAfterUnsub,  \* history: the callback was invoked after unsubscribe
    inviteInput,    \* the baseURL and valueHint given to createInviteLink
    inviteLink,     \* the link createInviteLink returned
    inviteResult,   \* what parseInviteLink returned for it
    invitePc,       \* "input", "linked" (createInviteLink has returned) or
                    \* "parsed" (parseInviteLink has)
    navigated,      \* history: the URL the window was opened with
    windowHref,     \* window.location.href
    consumePc,      \* the promise of consumeInviteLinkFromWindowLocation:
                    \* "none", "loaded" (not called yet), "accepting"
                    \* (pending, acceptInvite was called), "resolved" or
                    \* "rejected"
    consumeResult,  \* result of consumeInviteLinkFromWindowLocation, and the
                    \* value the promise resolved with
    acceptInviteCalls,  \* history: the calls of node.acceptInvite
    blob,           \* the blob given to createBinaryStreamFromBlob
    blobPc,         \* "created" (the stream is created, the read of the blob
                    \* is due), "pushing" (in the loop, at its await), "returned",
                    \* or "hung" (the read failed: done never resolves)
    blobIdx,        \* idx of the loop
    streamOps,      \* the operations made on the binary stream, in order
    stream,         \* the local variable stream: the stream as "created", or
                    \* the one endBinaryStream returned, "ended"
    returnedStream, \* what createBinaryStreamFromBlob returned, "none" before
    readCall,       \* the last call of readBlobFromBinaryStream: whether the
                    \* stream could be loaded, allowUnfinished, and the
                    \* operations of the stream at that time
    readResult,     \* what that call returned
    sigCase,        \* the last sign and verify: the signer, the signer whose ID
                    \* is verified against, the payloads signed and verified,
                    \* and what verify returned
    sealCase,       \* the last seal and unseal: sender, recipient, the sealer
                    \* that unseals, the nonce materials, the message and the
                    \* outcome
    txCase,         \* the last encryptForTransaction and decryptForTransaction:
                    \* the two key secrets, the nonce materials, the changes
                    \* and the outcome
    keyCase,        \* the last encryptKeySecret and decryptKeySecret: the key
                    \* encrypted, the encrypting key, the key that decrypts
                    \* and the outcome
    hashCase,       \* the last two values hashed and their hashes
    localAccount,   \* accountID of the node's account
    localMap,       \* map.core: the transactions of the map, in merge order
    lastEdit,       \* the last edit.set: key, value and what edit.get(key)
                    \* returned inside the edit
    items,          \* stream.items[sessionID]: the entries of each session
    pushLog,        \* the values pushed, in the order of the push calls
    queriedStream   \* the view last handed to the query callback

sessionVars == <<handle, locks, sessionStore, nonce, issued>>

authVars == <<authKind, loggedIn, existingUsers, cnPc, cnHandle, call,
              getSessionForCount, onReadyCount, onSignedInCount, sessionDone>>

nodeVars == <<initialReconnectionTimeout, currentReconnectionTimeout,
              shouldTryToReconnect, onlineListener, loopPc, waitDelay,
              nodeLive, nodeDone, peers, closeRequested, onlineFired>>

outgoingVars == <<isOpen, initialQueue, written, sent, outState>>

wsVars == <<wsState, streamState, pingTimeout, closeListener, idle,
            gotMessage, pingTimedOut, inbound, enqueued, thrown,
            isOpen, initialQueue, written, sent, outState>>

syncVars == <<coValues, channel, loadState>>

queryVars == <<mLog, sLog, loaded, watchers, pending, subState, view,
               lastDefined, prevDefined, partialDelivered, calledAfterUnsub>>

inviteVars == <<inviteInput, inviteLink, inviteResult, invitePc,
               navigated, windowHref, consumePc, consumeResult, acceptInviteCalls>>

consumeVars ==
    <<navigated, windowHref, consumePc, consumeResult, acceptInviteCalls>>

blobVars == <<blob, blobPc, blobIdx, streamOps, stream, returnedStream,
              readCall, readResult>>

cryptoVars == <<sigCase, sealCase, txCase, keyCase, hashCase>>

localVars ==
    <<localAccount, localMap, lastEdit, items, pushLog, queriedStream>>

vars == <<sessionVars, authVars, nodeVars, wsVars, syncVars, queryVars,
         inviteVars,
         blobVars,
         cryptoVars,
         localVars>>

\* what the steps of getSessionHandleFor, of the node and its auth providers
\* (which run getSessionHandleFor), of the socket and of the sync between two
\* nodes leave alone
outsideSession == <<authVars, nodeVars, wsVars, syncVars, queryVars,
    inviteVars, blobVars, cryptoVars, localVars>>
outsideNode == <<wsVars, syncVars, queryVars, inviteVars, blobVars,
    cryptoVars, localVars>>
outsideWs == <<sessionVars, authVars, nodeVars, syncVars, queryVars,
    inviteVars, blobVars, cryptoVars, localVars>>
outsideSync == <<sessionVars, authVars, nodeVars, wsVars, queryVars,
    inviteVars, blobVars, cryptoVars, localVars>>
outsideQuery == <<sessionVars, authVars, nodeVars, wsVars, syncVars,
    inviteVars, blobVars, cryptoVars, localVars>>
outsideInvite ==
    <<sessionVars, authVars, nodeVars, wsVars,
      syncVars, queryVars, blobVars, cryptoVars, localVars>>
outsideBlob ==
    <<sessionVars, authVars, nodeVars, wsVars,
      syncVars, queryVars, inviteVars, cryptoVars, localVars>>
outsideCrypto ==
    <<sessionVars, authVars, nodeVars, wsVars,
      syncVars, queryVars, inviteVars, blobVars, localVars>>
outsideLocal ==
    <<sessionVars, authVars, nodeVars, wsVars,
      syncVars, queryVars, inviteVars, blobVars, cryptoVars>>

(***************************************************************************)
(* getSessionHandleFor                                                     *)
(***************************************************************************)
\* a handle that getSessionHandleFor has not been called for
NoHandle ==
    [pc |-> "none", accountID |-> 0, idx |-> 0, retry |-> 0,
     doneCalled |-> FALSE, session |-> NoSession]

\* the values stored under accountID + "_" + idx
StoredAt(a, idx) == {t[3] : t \in {u \in sessionStore : u[1] = a /\ u[2] = idx}}

\* cojsonInternals.newRandomSessionID(accountID): an ID not seen before
newRandomSessionID(a) == <<a, nonce[a] + 1>>

\* mutant: the stored ID is ignored and a new one is minted on every acquisition
SessionIDAlwaysNew(a, idx) == newRandomSessionID(a)

\* localStorage[accountID + "_" + idx] || newRandomSessionID(accountID)
SessionIDFor(a, idx) ==
    IF StoredAt(a, idx) # {}
    THEN CHOOSE s \in StoredAt(a, idx) : TRUE
    ELSE newRandomSessionID(a)

\* mutant: the request is granted whether or not the lock is held
LockAlwaysAvailable(a, idx) == TRUE

\* { ifAvailable: true }: the lock is granted only when nobody holds it
LockAvailable(a, idx) == ~ \E t \in locks : t[1] = a /\ t[2] = idx

\* mutant: the callback returns without waiting for done()
DoneNotAwaited(h) == TRUE

\* await donePromise
DonePromiseResolved(h) == handle[h].doneCalled

\* the session promise of handle h is resolved
Resolved(h) == handle[h].session # NoSession

\* mutant: every slot is tried once more
NextTryThreeTimes(hd) ==
    IF hd.retry + 1 < NumRetries + 1
    THEN [hd EXCEPT !.retry = @ + 1]
    ELSE IF hd.idx + 1 < NumSlots
    THEN [hd EXCEPT !.idx = @ + 1, !.retry = 0]
    ELSE [hd EXCEPT !.pc = "failed"]

\* mutant: the task returns after the last try
NextTryNoError(hd) ==
    IF hd.retry + 1 < NumRetries
    THEN [hd EXCEPT !.retry = @ + 1]
    ELSE IF hd.idx + 1 < NumSlots
    THEN [hd EXCEPT !.idx = @ + 1, !.retry = 0]
    ELSE [hd EXCEPT !.pc = "finished"]

\* "noLock": the loops go on, for (idx < 100) for (retry < 2); after the last
\* try the task throws "Couldn't get lock on session after 100x2 tries"
NextTry(hd) ==
    IF hd.retry + 1 < NumRetries
    THEN [hd EXCEPT !.retry = @ + 1]
    ELSE IF hd.idx + 1 < NumSlots
    THEN [hd EXCEPT !.idx = @ + 1, !.retry = 0]
    ELSE [hd EXCEPT !.pc = "failed"]

\* getSessionHandleFor(accountID): the promises are created and the task issues
\* its first lock request
GetSessionHandleFor(h, a) ==
    /\ handle[h].pc = "none"
    /\ handle' = [handle EXCEPT ![h] =
                    [pc |-> "trying", accountID |-> a, idx |-> 0, retry |-> 0,
                     doneCalled |-> FALSE, session |-> NoSession]]
    /\ UNCHANGED <<locks, sessionStore, nonce, issued>>

\* navigator.locks.request(accountID + "_" + idx, {ifAvailable: true}, callback):
\* the lock manager answers the pending request and the callback runs up to
\* its await; without the lock the loops go on to the next try
LocksRequest(h) ==
    LET a == handle[h].accountID
        idx == handle[h].idx
        sessionID == SessionIDFor(a, idx)
    IN  /\ handle[h].pc = "trying"
        /\ IF LockAvailable(a, idx)
           THEN /\ locks' = locks \cup {<<a, idx, h>>}
                /\ sessionStore' =
                     {t \in sessionStore : ~(t[1] = a /\ t[2] = idx)}
                        \cup {<<a, idx, sessionID>>}
                /\ nonce' = IF sessionID = newRandomSessionID(a)
                            THEN [nonce EXCEPT ![a] = @ + 1] ELSE nonce
                /\ issued' = issued \cup {<<a, idx, sessionID>>}
                /\ handle' = [handle EXCEPT
                     ![h].pc = "holding",
                     ![h].session = IF @ = NoSession THEN sessionID ELSE @]
           ELSE /\ handle' = [handle EXCEPT ![h] = NextTry(@)]
                /\ UNCHANGED <<locks, sessionStore, nonce, issued>>

\* done(): resolves donePromise
Done(h) ==
    /\ handle[h].pc # "none"
    /\ ~handle[h].doneCalled
    /\ handle' = [handle EXCEPT ![h].doneCalled = TRUE]
    /\ UNCHANGED <<locks, sessionStore, nonce, issued>>

\* the callback resumes after donePromise and returns "sessionFinished": the
\* lock is released and the task returns
SessionFinished(h) ==
    /\ handle[h].pc = "holding"
    /\ DonePromiseResolved(h)
    /\ locks' = {t \in locks : t[3] # h}
    /\ handle' = [handle EXCEPT ![h].pc = "finished"]
    /\ UNCHANGED <<sessionStore, nonce, issued>>

\* the device restarts (every tab is closed): handles and locks are gone,
\* localStorage stays
Restart ==
    /\ \E h \in Handles : handle[h].pc # "none"
    /\ handle' = [h \in Handles |-> NoHandle]
    /\ locks' = {}
    /\ UNCHANGED <<sessionStore, nonce, issued>>

\* no session handle exists and nothing is stored
InitSessionVars ==
    /\ handle = [h \in Handles |-> NoHandle]
    /\ locks = {}
    /\ sessionStore = {}
    /\ nonce = [a \in Accounts |-> 0]
    /\ issued = {}

\* the slots handles of other tabs hold, all of one account or all but the
\* last: each holds its lock and has stored its session ID
OtherTabsSlots == {0..(NumSlots - 1), 0..(NumSlots - 2)}

\* the account whose slots the other tabs hold
OtherTabsAccount == 1

\* the session ID the other tab stored at a slot
OtherTabsSessionID(idx) == <<OtherTabsAccount, 0 - (idx + 1)>>

\* no session handle exists in this tab; other tabs hold slots
InitSlotsVars ==
    /\ handle = [h \in Handles |-> NoHandle]
    /\ \E held \in OtherTabsSlots :
          /\ locks = {<<OtherTabsAccount, idx, 0>> : idx \in held}
          /\ sessionStore =
                {<<OtherTabsAccount, idx, OtherTabsSessionID(idx)>> : idx \in held}
    /\ nonce = [a \in Accounts |-> 0]
    /\ issued = {}

Min(x, y) == IF x <= y THEN x ELSE y

(***************************************************************************)
(* websocketReadableStream                                                 *)
(***************************************************************************)
\* the socket variables where no socket is modelled
NoWs ==
    /\ wsState = "closed"
    /\ streamState = "closed"
    /\ pingTimeout = NoTimer
    /\ closeListener = FALSE
    /\ idle = 0
    /\ gotMessage = FALSE
    /\ pingTimedOut = FALSE
    /\ inbound = <<>>
    /\ enqueued = <<>>
    /\ thrown = {}
    /\ isOpen = FALSE
    /\ initialQueue = <<>>
    /\ written = 0
    /\ sent = <<>>
    /\ outState = "closed"

\* mutant: the idle timer runs from the creation of the stream
InitialPingTimeoutArmed == PingTimeoutMs

\* let pingTimeout: ReturnType<typeof setTimeout> | undefined;
InitialPingTimeout == NoTimer

\* mutant: a ping returns before the idle timer is restarted
RestartsPingTimeoutUnlessPing(type) == type # "ping"

\* ws.onmessage restarts the idle timer before it looks at msg.type
RestartsPingTimeout(type) == TRUE

\* mutant: a ping is enqueued like every other message
ReachesEnqueueAlways(type) == TRUE

\* if (msg.type === "ping") { ...; return; } controller.enqueue(msg);
ReachesEnqueue(type) == type # "ping"

\* controller.close() and controller.enqueue() throw a TypeError unless the
\* stream is readable
CanCloseOrEnqueue == streamState = "readable"

\* the calls that have thrown after a call of controller.close() or
\* controller.enqueue() (method) is made, or is not (made = FALSE)
ThrownAfter(made, method) ==
    IF made /\ ~CanCloseOrEnqueue
    THEN thrown \cup {<<method, streamState>>}
    ELSE thrown

\* ws.close(): starts the closing handshake of an open socket, during which
\* messages still arrive, and gives up a connecting one
WsAfterClose ==
    IF wsState = "open" THEN "closing"
    ELSE IF wsState = "connecting" THEN "aborted"
    ELSE wsState

\* the socket is created (createWebSocketPeer) and the stream started
NewWs ==
    /\ wsState = "connecting"
    /\ streamState = "readable"
    /\ pingTimeout = InitialPingTimeout
    /\ closeListener = TRUE
    /\ idle = 0
    /\ gotMessage = FALSE
    /\ pingTimedOut = FALSE
    /\ inbound = <<>>
    /\ enqueued = <<>>
    /\ thrown = {}
    /\ isOpen = FALSE
    /\ initialQueue = <<>>
    /\ written = 0
    /\ sent = <<>>
    /\ outState = "writable"

\* mutant: the queue is flushed from its newest message to its oldest
SendAllNewestFirst(queue, open) ==
    sent \o [k \in 1..Len(queue) |->
                [msg |-> queue[Len(queue) + 1 - k], taken |-> open]]

\* for (const item of queue) ws.send(JSON.stringify(item)): the socket takes a
\* message when it is open and drops it when it is closing or closed
SendAll(queue, open) ==
    sent \o [k \in 1..Len(queue) |-> [msg |-> queue[k], taken |-> open]]

\* controller.error(...) of the outgoing stream
OutAfterError == IF outState = "writable" THEN "errored" ELSE outState

\* the socket's "open" event: the outgoing stream flushes initialQueue and
\* sets isOpen
WsOpen ==
    /\ wsState = "connecting"
    /\ wsState' = "open"
    /\ sent' = SendAll(initialQueue, TRUE)
    /\ isOpen' = TRUE
    /\ UNCHANGED <<initialQueue, written, outState>>
    /\ UNCHANGED <<streamState, pingTimeout, closeListener, idle, gotMessage,
                   pingTimedOut>>
    /\ UNCHANGED <<inbound, enqueued, thrown>>

\* ws.onmessage for a message of the sync protocol (JSON text): the idle timer
\* is restarted; a ping returns; another message is enqueued, which throws
\* unless the stream is readable. The other end's messages keep arriving
\* while the closing handshake runs.
OnMessage(type) ==
    /\ wsState \in {"open", "closing"}
    /\ Len(inbound) < MaxMessages
    /\ pingTimeout' = IF RestartsPingTimeout(type) THEN PingTimeoutMs
                      ELSE pingTimeout
    /\ idle' = 0
    /\ gotMessage' = TRUE
    /\ inbound' = Append(inbound,
                         [type |-> type, readable |-> CanCloseOrEnqueue])
    /\ enqueued' = IF ReachesEnqueue(type) /\ CanCloseOrEnqueue
                   THEN Append(enqueued, Len(inbound'))
                   ELSE enqueued
    /\ thrown' = ThrownAfter(ReachesEnqueue(type), "enqueue")
    /\ UNCHANGED <<wsState, streamState, closeListener, pingTimedOut>>
    /\ UNCHANGED outgoingVars

\* the idle timer expires: try { controller.close(); ws.close(); } catch
PingTimeout ==
    /\ pingTimeout = 0
    /\ pingTimeout' = NoTimer
    /\ pingTimedOut' = TRUE
    /\ IF CanCloseOrEnqueue
       THEN /\ streamState' = "closed"
            /\ wsState' = WsAfterClose
       ELSE UNCHANGED <<streamState, wsState>>
    /\ thrown' = ThrownAfter(TRUE, "close")
    /\ UNCHANGED <<closeListener, idle, gotMessage>>
    /\ UNCHANGED <<inbound, enqueued>>
    /\ UNCHANGED outgoingVars

\* the socket's "close" event (the other end or the network closed it, or the
\* closing handshake is over): closeListener, when it is registered, closes
\* the controller and then clears the timer
WsClose ==
    /\ wsState # "closed"
    /\ wsState' = "closed"
    /\ IF closeListener /\ CanCloseOrEnqueue
       THEN /\ streamState' = "closed"
            /\ pingTimeout' = NoTimer
       ELSE UNCHANGED <<streamState, pingTimeout>>
    /\ thrown' = ThrownAfter(closeListener, "close")
    /\ UNCHANGED <<closeListener, idle, gotMessage, pingTimedOut>>
    /\ UNCHANGED <<inbound, enqueued>>
    /\ outState' = OutAfterError
    /\ UNCHANGED <<isOpen, initialQueue, written, sent>>

\* the socket's "error" event (the connection failed; its "close" event
\* follows): controller.error(...) and closeListener is removed
WsError ==
    /\ wsState \in {"connecting", "open", "closing", "aborted"}
    /\ wsState' = "failed"
    /\ streamState' = IF streamState = "readable" THEN "errored" ELSE streamState
    /\ closeListener' = FALSE
    /\ UNCHANGED <<pingTimeout, idle, gotMessage, pingTimedOut>>
    /\ UNCHANGED <<inbound, enqueued, thrown>>
    /\ outState' = OutAfterError
    /\ UNCHANGED <<isOpen, initialQueue, written, sent>>

\* cancel() of the stream by its consumer: the stream is closed and ws.close()
Cancel ==
    /\ streamState = "readable"
    /\ streamState' = "closed"
    /\ wsState' = WsAfterClose
    /\ UNCHANGED <<pingTimeout, closeListener, idle, gotMessage, pingTimedOut>>
    /\ UNCHANGED <<inbound, enqueued, thrown>>
    /\ UNCHANGED outgoingVars

\* TickMs of time pass; a timer that is due runs first
Tick ==
    /\ pingTimeout # 0
    /\ pingTimeout' = IF pingTimeout = NoTimer THEN NoTimer
                      ELSE IF pingTimeout > TickMs THEN pingTimeout - TickMs
                      ELSE 0
    /\ idle' = Min(idle + TickMs, PingTimeoutMs)
    /\ UNCHANGED <<wsState, streamState, closeListener, gotMessage, pingTimedOut>>
    /\ UNCHANGED <<inbound, enqueued, thrown>>
    /\ UNCHANGED outgoingVars

\* write(chunk) of the outgoing stream: ws.send when isOpen, else the message
\* is queued
Write ==
    /\ outState = "writable"
    /\ written < MaxWritten
    /\ written' = written + 1
    /\ IF isOpen
       THEN /\ sent' = SendAll(<<written'>>, wsState = "open")
            /\ UNCHANGED initialQueue
       ELSE /\ initialQueue' = Append(initialQueue, written')
            /\ UNCHANGED sent
    /\ UNCHANGED <<isOpen, outState>>
    /\ UNCHANGED <<wsState, streamState, pingTimeout, closeListener, idle,
                   gotMessage, pingTimedOut, inbound, enqueued, thrown>>

\* close() or abort(reason) of the outgoing stream by its writer: closeWS
\* calls ws.close(code, reasonString)
CloseWS ==
    /\ outState = "writable"
    /\ outState' = "closed"
    /\ wsState' = WsAfterClose
    /\ UNCHANGED <<isOpen, initialQueue, written, sent>>
    /\ UNCHANGED <<streamState, pingTimeout, closeListener, idle,
                   gotMessage, pingTimedOut, inbound, enqueued, thrown>>

(***************************************************************************)
(* Two nodes and the sync of covalues between them                         *)
(***************************************************************************)
\* a covalue a node does not have
NoCoValue == [header |-> FALSE, txs |-> <<>>]

\* the sync variables where no nodes are modelled
NoSync ==
    /\ coValues = [n \in Nodes |-> [id \in CoIDs |-> NoCoValue]]
    /\ channel = [n \in Nodes |-> <<>>]
    /\ loadState = [id \in CoIDs |-> "unrequested"]

\* a transaction of the map: map.edit((edit) => edit.set(key, value, "private"))
Tx == [key : Keys, value : Values]

\* the session logs the first node can have made in the map: at least one
\* transaction, at most MaxTx
Logs == UNION {[1..n -> Tx] : n \in 1..MaxTx}

\* the session log of the account: the transaction that names its profile
AccountLog == <<[key |-> "profile", value |-> "co_profile"]>>

\* map.get(key) on undefined content
NoValue == "undefined"

\* map.get(key): the value of the last transaction on key in the merge order,
\* which for one session is the order of its log
Get(txs, key) ==
    LET on == {i \in 1..Len(txs) : txs[i].key = key}
    IN  IF on = {} THEN NoValue
        ELSE txs[CHOOSE i \in on : \A j \in on : j <= i].value

\* mutant: only the first missing entry is sent
MissingSliceFirstOnly(txs, from) == SubSeq(txs, from + 1, Min(from + 1, Len(txs)))

\* slice(fromIndex): the entries of a session log after the first `from`
MissingSlice(txs, from) == SubSeq(txs, from + 1, Len(txs))

\* the peer of a node on the duplex pair
PeerOf(n) == 3 - n

\* the message at the head of node n's channel is taken off and msgs are
\* sent to its peer
Reply(n, msgs) ==
    channel' = [channel EXCEPT ![n] = Tail(@), ![PeerOf(n)] = @ \o msgs]

\* the answer to a peer that has `from` entries of id: a content message with
\* the header and the missing slice
ContentMsg(n, id, from) ==
    [type |-> "content", id |-> id, header |-> TRUE, after |-> from,
     new |-> MissingSlice(coValues[n][id].txs, from)]

\* "known" and "load" carry what the sender has of id
StateMsg(type, n, id) ==
    [type |-> type, id |-> id, header |-> coValues[n][id].header,
     sessions |-> Len(coValues[n][id].txs)]

\* the first node: withNewlyCreatedAccount, createGroup, createMap and the
\* edits; then connectedPeers and addPeer. hasMap: the map is one of this
\* node's (otherwise its ID comes from elsewhere)
InitSyncVars ==
    \E hasMap \in BOOLEAN, log \in Logs :
        /\ coValues = [n \in Nodes |-> [id \in CoIDs |->
               IF n = 1 /\ id = "account"
               THEN [header |-> TRUE, txs |-> AccountLog]
               ELSE IF n = 1 /\ hasMap
               THEN [header |-> TRUE, txs |-> log]
               ELSE NoCoValue]]
        /\ channel = [n \in Nodes |-> <<>>]
        /\ loadState = [id \in CoIDs |-> "unrequested"]

\* node2 starts to load id from its peer: it tells what it has of id ("known")
\* or asks for id ("load")
StartLoad(id, type) ==
    /\ loadState[id] = "unrequested"
    /\ loadState' = [loadState EXCEPT ![id] = "loading"]
    /\ channel' = [channel EXCEPT ![1] = Append(@, StateMsg(type, 2, id))]
    /\ UNCHANGED coValues

\* LocalNode.withLoadedAccount({accountID, ..., peersToLoadFrom: [node1asPeer]})
LoadAccount(type) == StartLoad("account", type)

\* node2.load(map.id), once withLoadedAccount has returned node2
LoadMap(type) ==
    /\ loadState["account"] = "loaded"
    /\ StartLoad("map", type)

\* node n receives the peer's "known": it sends the slice the peer lacks, or
\* asks for what it lacks itself
ReceiveKnown(n) ==
    /\ channel[n] # <<>>
    /\ Head(channel[n]).type = "known"
    /\ LET m == Head(channel[n])
           our == coValues[n][m.id]
       IN  /\ IF our.header /\ (~m.header \/ m.sessions < Len(our.txs))
              THEN Reply(n, <<ContentMsg(n, m.id, m.sessions)>>)
              ELSE IF m.header /\ (~our.header \/ Len(our.txs) < m.sessions)
              THEN Reply(n, <<StateMsg("load", n, m.id)>>)
              ELSE Reply(n, <<>>)
           /\ loadState' =
                 IF n = 2 /\ ~m.header /\ ~our.header /\ loadState[m.id] = "loading"
                 THEN [loadState EXCEPT ![m.id] = "unavailable"]
                 ELSE loadState
    /\ UNCHANGED coValues

\* node n receives "load": it replies with the slice asked for, or, having
\* nothing of the covalue, with what it knows: nothing
ReceiveLoad(n) ==
    /\ channel[n] # <<>>
    /\ Head(channel[n]).type = "load"
    /\ LET m == Head(channel[n])
       IN  IF coValues[n][m.id].header
           THEN Reply(n, <<ContentMsg(n, m.id, m.sessions)>>)
           ELSE Reply(n, <<StateMsg("known", n, m.id)>>)
    /\ UNCHANGED <<coValues, loadState>>

\* node n receives "content": it installs the header if it had none and adds
\* the transactions that continue its session log (tryAddTransactions; any
\* other slice is a duplicate or leaves a gap and is not added)
ReceiveContent(n) ==
    /\ channel[n] # <<>>
    /\ Head(channel[n]).type = "content"
    /\ LET m == Head(channel[n])
           our == coValues[n][m.id]
       IN  /\ coValues' = [coValues EXCEPT ![n][m.id] =
                 [header |-> our.header \/ m.header,
                  txs |-> IF m.after = Len(our.txs) THEN our.txs \o m.new
                          ELSE our.txs]]
           /\ loadState' =
                 IF n = 2 /\ loadState[m.id] = "loading"
                 THEN [loadState EXCEPT ![m.id] = "loaded"]
                 ELSE loadState
    /\ Reply(n, <<>>)

(***************************************************************************)
(* LocalNode.query: one subscription on a map M whose key "subMap" comes   *)
(* to reference a sub-map S                                                *)
(***************************************************************************)
QueryCoValues == {"M", "S"}

\* the keys set in M: map.set("hello", "world"), map.set("subMap", subMap)
MapKeys == {"hello", "subMap"}

\* the values others set "hello" of S to; the callback sets it to "sun"
SubMapValues == {"world", "moon"}

\* the callback is invoked with undefined
UndefinedView == [m |-> -1, s |-> -1]

\* the query variables where no query is modelled
NoQuery ==
    /\ mLog = <<>>
    /\ sLog = <<>>
    /\ loaded = [co \in QueryCoValues |-> FALSE]
    /\ watchers = {}
    /\ pending = {}
    /\ subState = "none"
    /\ view = UndefinedView
    /\ lastDefined = UndefinedView
    /\ prevDefined = UndefinedView
    /\ partialDelivered = FALSE
    /\ calledAfterUnsub = FALSE

\* M.subMap is set
RefsS == \E i \in 1..Len(mLog) : mLog[i] = "subMap"

\* the covalues a view of M is made of
Required == IF RefsS THEN {"M", "S"} ELSE {"M"}

\* S.hello
Hello == IF sLog = <<>> THEN NoValue ELSE sLog[Len(sLog)]

\* mutant: a view shows the transactions of the covalues that just changed
VisibleOnlyChanged(co, n, changed) == IF co \in changed THEN n ELSE 0

\* a fresh view shows all n transactions of a covalue it is made of
Visible(co, n, changed) == n

\* mutant: only the queried covalue itself has to be loaded
RequiredLoadedIgnoringNested == loaded["M"]

\* no required covalue is still loading
RequiredLoaded == \A co \in Required : loaded[co]

\* the view the callback is invoked with after the covalues in `changed`
\* changed: how many transactions of M it shows and how many of S it shows
\* through M.subMap
ViewOf(changed) ==
    IF RequiredLoaded
    THEN [m |-> Visible("M", Len(mLog), changed),
          s |-> IF RefsS THEN Visible("S", Len(sLog), changed) ELSE 0]
    ELSE UndefinedView

\* a change of co reaches the subscription if it listens to co
Notify(co, ws, pend) == IF co \in ws THEN pend \cup {co} ELSE pend

\* mutant: unsubscribe leaves the watchers in place
WatchersKept == watchers

\* unsubscribe removes the subscription and its nested watchers
WatchersAfterUnsubscribe == {}

\* the test's node, group and covalues; what of them the node has yet
InitQueryVars ==
    /\ mLog = <<>>
    /\ sLog = <<>>
    /\ loaded \in [QueryCoValues -> BOOLEAN]
    /\ watchers = {}
    /\ pending = {}
    /\ subState = "none"
    /\ view = UndefinedView
    /\ lastDefined = UndefinedView
    /\ prevDefined = UndefinedView
    /\ partialDelivered = FALSE
    /\ calledAfterUnsub = FALSE

\* const unsubQuery = node.query(map.id, callback): the subscription listens
\* to M and a first callback is due
Query ==
    /\ subState = "none"
    /\ subState' = "active"
    /\ watchers' = {"M"}
    /\ pending' = {"M"}
    /\ UNCHANGED <<mLog, sLog, loaded, view, lastDefined, prevDefined,
                   partialDelivered, calledAfterUnsub>>

\* map.set(key, ...)
WriteM(key) ==
    /\ Len(mLog) < MaxWrites
    /\ mLog' = Append(mLog, key)
    /\ pending' = Notify("M", watchers, pending)
    /\ UNCHANGED <<sLog, loaded, watchers, subState, view, lastDefined,
                   prevDefined, partialDelivered, calledAfterUnsub>>

\* subMap.set("hello", value)
WriteS(value) ==
    /\ Len(sLog) < MaxWrites
    /\ sLog' = Append(sLog, value)
    /\ pending' = Notify("S", watchers, pending)
    /\ UNCHANGED <<mLog, loaded, watchers, subState, view, lastDefined,
                   prevDefined, partialDelivered, calledAfterUnsub>>

\* a covalue the subscription is waiting for is loaded
LoadDone(co) ==
    /\ co \in watchers
    /\ ~loaded[co]
    /\ loaded' = [loaded EXCEPT ![co] = TRUE]
    /\ pending' = pending \cup {co}
    /\ UNCHANGED <<mLog, sLog, watchers, subState, view, lastDefined,
                   prevDefined, partialDelivered, calledAfterUnsub>>

\* a change is delivered: the nested covalue is subscribed to, the callback
\* is invoked with a fresh view, and the callback of the test acts on it: on
\* "moon" it sets S.hello to "sun", on "sun" it calls unsubQuery()
Deliver ==
    /\ pending # {}
    /\ LET v == ViewOf(pending)
           nested == IF RefsS THEN watchers \cup {"S"} ELSE watchers
           writes == v # UndefinedView /\ RefsS /\ Hello = "moon"
                     /\ Len(sLog) < MaxWrites
           unsubs == v # UndefinedView /\ RefsS /\ Hello = "sun"
       IN  /\ view' = v
           /\ lastDefined' = IF v # UndefinedView THEN v ELSE lastDefined
           /\ prevDefined' = IF v # UndefinedView THEN lastDefined
                             ELSE prevDefined
           /\ partialDelivered' =
                 (partialDelivered \/
                  (v # UndefinedView /\ \E co \in Required : ~loaded[co]))
           /\ calledAfterUnsub' = (calledAfterUnsub \/ subState = "cancelled")
           /\ sLog' = IF writes THEN Append(sLog, "sun") ELSE sLog
           /\ subState' = IF unsubs THEN "cancelled" ELSE subState
           /\ watchers' = IF unsubs THEN WatchersAfterUnsubscribe ELSE nested
           /\ pending' = IF writes THEN Notify("S", nested, {}) ELSE {}
    /\ UNCHANGED <<mLog, loaded>>

\* unsubQuery(), called from outside the callback
Unsubscribe ==
    /\ subState = "active"
    /\ subState' = "cancelled"
    /\ watchers' = WatchersAfterUnsubscribe
    /\ pending' = {}
    /\ UNCHANGED <<mLog, sLog, loaded, view, lastDefined, prevDefined,
                   partialDelivered, calledAfterUnsub>>

(***************************************************************************)
(* createInviteLink and parseInviteLink. A string is the sequence of its   *)
(* characters.                                                             *)
(***************************************************************************)
\* the characters of hints and base URLs: a letter, a space, and the two
\* characters the link format and the URL parser give a meaning to
Chars == {"a", " ", "#", "/"}

\* undefined, where a string is expected
UndefinedStr == <<"undefined">>

\* the valueHint values: none given, or a string
Hints == {UndefinedStr} \cup UNION {[1..n -> Chars] : n \in 0..MaxHintLen}

\* the baseURL values: absolute URLs, "a" standing for scheme and host
BaseURLs ==
    {<<"a">> \o rest :
        rest \in UNION {[1..n -> {"a", "/", "#"}] : n \in 0..(MaxBaseLen - 1)}}

\* value.id ("co_z...") and the secret group.createInvite(role) returned
\* ("inviteSecret_z..."), each a string of letters and digits
ValueID == <<"c", "o">>
InviteSecret == <<"s">>

\* the invite variables where no link is modelled
NoInvite ==
    /\ inviteInput = [baseURL |-> <<>>, valueHint |-> UndefinedStr]
    /\ inviteLink = <<>>
    /\ inviteResult = <<>>
    /\ invitePc = "none"
    /\ navigated = <<>>
    /\ windowHref = <<>>
    /\ consumePc = "none"
    /\ consumeResult = <<>>
    /\ acceptInviteCalls = <<>>

\* `${baseURL}#/invite/${valueHint ? valueHint + "/" : ""}${value.id}/${inviteSecret}`
\* ("invite" is one symbol)
createInviteLink(value, secret, baseURL, valueHint) ==
    baseURL \o <<"#", "/", "invite", "/">>
            \o (IF valueHint # UndefinedStr /\ valueHint # <<>>
                THEN valueHint \o <<"/">> ELSE <<>>)
            \o value \o <<"/">> \o secret

\* the URL parser percent-encodes the characters of the fragment that are in
\* the fragment percent-encode set: of Chars, the space
RECURSIVE PercentEncodeFragment(_)
PercentEncodeFragment(str) ==
    IF str = <<>> THEN <<>>
    ELSE (IF Head(str) = " " THEN <<"%", "2", "0">> ELSE <<Head(str)>>)
         \o PercentEncodeFragment(Tail(str))

\* new URL(inviteURL).hash: the URL from its first "#" on, percent-encoded
UrlHash(url) ==
    LET at == {i \in 1..Len(url) : url[i] = "#"}
    IN  IF at = {} THEN <<>>
        ELSE PercentEncodeFragment(
                 SubSeq(url, CHOOSE i \in at : \A j \in at : i <= j, Len(url)))

\* str.split("/")
RECURSIVE Split(_)
Split(str) ==
    LET at == {i \in 1..Len(str) : str[i] = "/"}
    IN  IF at = {} THEN <<str>>
        ELSE LET i == CHOOSE k \in at : \A j \in at : k <= j
             IN  <<SubSeq(str, 1, i - 1)>> \o Split(SubSeq(str, i + 1, Len(str)))

\* parseInviteLink returns undefined
UndefinedResult ==
    [valueID |-> UndefinedStr, inviteSecret |-> UndefinedStr,
     valueHint |-> UndefinedStr]

\* parseInviteLink(inviteURL)
parseInviteLink(inviteURL) ==
    LET parts == Split(UrlHash(inviteURL))
        n == Len(parts)
        valueHint == IF n = 5 THEN parts[3] ELSE UndefinedStr
        valueID == IF n = 5 THEN parts[4]
                   ELSE IF n = 4 THEN parts[3] ELSE UndefinedStr
        inviteSecret == IF n = 5 THEN parts[5]
                        ELSE IF n = 4 THEN parts[4] ELSE UndefinedStr
    IN  IF n >= 2 /\ parts[1] = <<"#">> /\ parts[2] = <<"invite">>
        THEN IF valueID \in {UndefinedStr, <<>>}
                \/ inviteSecret \in {UndefinedStr, <<>>}
             THEN UndefinedResult
             ELSE [valueID |-> valueID, inviteSecret |-> inviteSecret,
                   valueHint |-> valueHint]
        ELSE UndefinedResult

InitInviteVars ==
    /\ inviteInput \in [baseURL : BaseURLs, valueHint : Hints]
    /\ inviteLink = <<>>
    /\ inviteResult = <<>>
    /\ invitePc = "input"
    /\ navigated = <<>>
    /\ windowHref = <<>>
    /\ consumePc = "none"
    /\ consumeResult = <<>>
    /\ acceptInviteCalls = <<>>

\* createInviteLink(value, role, {baseURL, valueHint}) on a value with a group
CreateInviteLink ==
    /\ invitePc = "input"
    /\ inviteLink' = createInviteLink(ValueID, InviteSecret,
                                      inviteInput.baseURL, inviteInput.valueHint)
    /\ invitePc' = "linked"
    /\ UNCHANGED <<inviteInput, inviteResult>>
    /\ UNCHANGED consumeVars

\* parseInviteLink(link)
ParseInviteLink ==
    /\ invitePc = "linked"
    /\ inviteResult' = parseInviteLink(inviteLink)
    /\ invitePc' = "parsed"
    /\ UNCHANGED <<inviteInput, inviteLink>>
    /\ UNCHANGED consumeVars

\* the position of the first "#" of a URL, or 0
FirstHash(url) ==
    LET at == {i \in 1..Len(url) : url[i] = "#"}
    IN  IF at = {} THEN 0 ELSE CHOOSE i \in at : \A j \in at : i <= j

\* window.location.href of a window opened with url: the URL as the URL
\* parser serialises it, its fragment percent-encoded
Href(url) ==
    IF FirstHash(url) = 0 THEN url
    ELSE SubSeq(url, 1, FirstHash(url) - 1) \o UrlHash(url)

\* mutant: the URL is cut at its last "#"
ReplaceFragmentFromLastHash(href) ==
    LET at == {i \in 1..Len(href) : href[i] = "#"}
    IN  IF at = {} THEN href
        ELSE SubSeq(href, 1, (CHOOSE i \in at : \A j \in at : i >= j) - 1)

\* href.replace(/#.*$/, ""): the URL up to its first "#"
ReplaceFragment(href) ==
    IF FirstHash(href) = 0 THEN href ELSE SubSeq(href, 1, FirstHash(href) - 1)

\* the window is opened with the invite link, or with the base URL alone
Navigate(withInvite) ==
    /\ invitePc # "input"
    /\ consumePc = "none"
    /\ navigated' = IF withInvite THEN inviteLink ELSE inviteInput.baseURL
    /\ windowHref' = Href(navigated')
    /\ consumePc' = "loaded"
    /\ UNCHANGED <<inviteInput, inviteLink, inviteResult, invitePc,
                   consumeResult, acceptInviteCalls>>

\* consumeInviteLinkFromWindowLocation(node) up to its return: the link is
\* parsed and node.acceptInvite is called, or the promise resolves with
\* undefined
ConsumeInviteLink ==
    /\ consumePc = "loaded"
    /\ consumeResult' = parseInviteLink(windowHref)
    /\ IF consumeResult' # UndefinedResult
       THEN /\ acceptInviteCalls' =
                  Append(acceptInviteCalls,
                         <<consumeResult'.valueID, consumeResult'.inviteSecret>>)
            /\ consumePc' = "accepting"
       ELSE /\ consumePc' = "resolved"
            /\ UNCHANGED acceptInviteCalls
    /\ UNCHANGED <<inviteInput, inviteLink, inviteResult, invitePc,
                   navigated, windowHref>>

\* the promise of node.acceptInvite settles: .then resolves with result and
\* replaces the URL, .catch(reject) rejects
AcceptInviteSettled(ok) ==
    /\ consumePc = "accepting"
    /\ IF ok
       THEN /\ consumePc' = "resolved"
            /\ windowHref' = ReplaceFragment(windowHref)
       ELSE /\ consumePc' = "rejected"
            /\ UNCHANGED windowHref
    /\ UNCHANGED <<inviteInput, inviteLink, inviteResult, invitePc,
                   navigated, consumeResult, acceptInviteCalls>>

(***************************************************************************)
(* createBinaryStreamFromBlob and readBlobFromBinaryStream                 *)
(***************************************************************************)
Bytes == {0, 1}

\* blob.type
MimeTypes == {"text/plain", "image/png"}

\* the blobs: their bytes, type, and name if they are a File ("undefined" if
\* not)
Blobs ==
    [bytes : UNION {[1..n -> Bytes] : n \in 0..MaxBlobLen},
     type : MimeTypes,
     name : {"undefined", "a.png"}]

\* the operations of a binary stream
EndOp == [op |-> "end"]
ChunkOp(bytes) == [op |-> "chunk", bytes |-> bytes]

\* mutant: the start operation does not carry the size
StartOpWithoutSize(b) ==
    [op |-> "start", mimeType |-> b.type, totalSizeBytes |-> 0,
     fileName |-> b.name]

\* stream.startBinaryStream({mimeType: blob.type, totalSizeBytes: blob.size,
\*     fileName: blob instanceof File ? blob.name : undefined})
StartOp(b) ==
    [op |-> "start", mimeType |-> b.type, totalSizeBytes |-> Len(b.bytes),
     fileName |-> b.name]

\* mutant: a chunk takes one byte more
SliceOneMore(data, from, to) == SubSeq(data, from + 1, Min(to + 1, Len(data)))

\* data.slice(from, to)
Slice(data, from, to) == SubSeq(data, from + 1, Min(to, Len(data)))

\* Blob | undefined
UndefinedBlob == [defined |-> FALSE, bytes |-> <<>>, type |-> "undefined"]

\* no call of readBlobFromBinaryStream yet
NoReadCall == [available |-> FALSE, allowUnfinished |-> "undefined", ops |-> <<>>]

\* the blob variables where no blob is modelled
NoBlob ==
    /\ blob = [bytes |-> <<>>, type |-> "undefined", name |-> "undefined"]
    /\ blobPc = "none"
    /\ blobIdx = 0
    /\ streamOps = <<>>
    /\ stream = "created"
    /\ returnedStream = "none"
    /\ readCall = NoReadCall
    /\ readResult = UndefinedBlob

\* the bytes of the chunk operations of ops, in order
RECURSIVE ChunkBytes(_)
ChunkBytes(ops) ==
    IF ops = <<>> THEN <<>>
    ELSE (IF Head(ops).op = "chunk" THEN Head(ops).bytes ELSE <<>>)
         \o ChunkBytes(Tail(ops))

\* stream.getBinaryChunks(allowUnfinished): undefined if the stream is not
\* started, or not ended unless allowUnfinished; else the chunks and the
\* mimeType of the start
getBinaryChunks(ops, allowUnfinished) ==
    IF ops = <<>> \/ ops[1].op # "start" THEN UndefinedBlob
    ELSE IF ops[Len(ops)].op # "end" /\ allowUnfinished # "true"
    THEN UndefinedBlob
    ELSE [defined |-> TRUE, bytes |-> ChunkBytes(ops), type |-> ops[1].mimeType]

\* mutant: the Blob is made without its type
BlobWithoutType(chunks) == [chunks EXCEPT !.type = ""]

\* new Blob(chunks.chunks, {type: chunks.mimeType})
NewBlob(chunks) == chunks

\* readBlobFromBinaryStream(streamId, node, allowUnfinished) on a stream with
\* operations ops that node.load finds (available) or not
readBlobFromBinaryStream(available, ops, allowUnfinished) ==
    IF ~available THEN UndefinedBlob
    ELSE LET chunks == getBinaryChunks(ops, allowUnfinished)
         IN  IF ~chunks.defined THEN UndefinedBlob ELSE NewBlob(chunks)

\* createBinaryStreamFromBlob up to await done: the stream is created, the
\* FileReader is made and the read is scheduled
InitBlobVars ==
    /\ blob \in Blobs
    /\ blobPc = "created"
    /\ blobIdx = 0
    /\ streamOps = <<>>
    /\ stream = "created"
    /\ returnedStream = "none"
    /\ readCall = NoReadCall
    /\ readResult = UndefinedBlob

\* the end of the loop: endBinaryStream, resolve(), and createBinaryStreamFromBlob
\* returns stream
EndAndReturn(ops) ==
    /\ streamOps' = Append(ops, EndOp)
    /\ stream' = "ended"
    /\ returnedStream' = stream'
    /\ blobPc' = "returned"
    /\ UNCHANGED blobIdx

\* one pass of for (idx = 0; idx < data.length; idx += chunkSize) from its
\* test on, up to the await in its body
LoopFrom(idx, ops) ==
    IF idx < Len(blob.bytes)
    THEN /\ streamOps' = Append(ops,
                ChunkOp(Slice(blob.bytes, idx, idx + MAX_RECOMMENDED_TX_SIZE)))
         /\ blobIdx' = idx
         /\ blobPc' = "pushing"
         /\ UNCHANGED <<stream, returnedStream>>
    ELSE EndAndReturn(ops)

\* reader.onload: startBinaryStream and the loop up to its first await
ReaderOnLoad ==
    /\ blobPc = "created"
    /\ LoopFrom(0, Append(streamOps, StartOp(blob)))
    /\ UNCHANGED <<blob, readCall, readResult>>

\* the read of the blob fails: onload is never called, done never resolves
ReaderFails ==
    /\ blobPc = "created"
    /\ blobPc' = "hung"
    /\ UNCHANGED <<blob, blobIdx, streamOps, stream, returnedStream, readCall,
                   readResult>>

\* the await in the loop body is over: idx += chunkSize and the next pass
LoopResume ==
    /\ blobPc = "pushing"
    /\ LoopFrom(blobIdx + MAX_RECOMMENDED_TX_SIZE, streamOps)
    /\ UNCHANGED <<blob, readCall, readResult>>

\* readBlobFromBinaryStream is called on the stream
ReadBlob(available, allowUnfinished) ==
    /\ readCall' = [available |-> available, allowUnfinished |-> allowUnfinished,
                    ops |-> streamOps]
    /\ readResult' = readBlobFromBinaryStream(available, streamOps, allowUnfinished)
    /\ UNCHANGED <<blob, blobPc, blobIdx, streamOps, stream, returnedStream>>

(***************************************************************************)
(* The crypto primitives, as symbolic terms: a signature is the signer and *)
(* what was signed, a ciphertext the key, the nonce and the plaintext; the *)
(* operations can only compare these.                                      *)
(***************************************************************************)
\* newRandomSigner(), newRandomSealer(), newRandomKeySecret().secret
Secrets == 1..NumSecrets

\* the keys "a", "b" of the payloads, in their lexicographic order, and their
\* values
PayloadKeys == {1, 2}
PayloadValues == {"hello", "world"}

\* the payloads: objects, as the sequence of their <<key, value>> entries in
\* insertion order
Payloads ==
    {x \in UNION {[1..n -> PayloadKeys \X PayloadValues] : n \in 1..2} :
        \A i, j \in 1..Len(x) : x[i][1] = x[j][1] => i = j}

\* nOnceMaterial = {in, tx: {sessionID, txIndex}}: its txIndex
NonceMaterials == {0, 1}

\* mutant: the entries are serialized in insertion order
InsertionOrder(x) == x

\* stableStringify: the entries sorted by key
stableStringify(x) ==
    LET rank(i) == Cardinality({j \in 1..Len(x) : x[j][1] < x[i][1]}) + 1
    IN  [r \in 1..Len(x) |-> x[CHOOSE i \in 1..Len(x) : rank(i) = r]]

\* getSignerID(signer), getSealerID(sealer): the public half
getSignerID(k) == <<"signer", k>>
getSealerID(k) == <<"sealer", k>>

\* sign(signerSecret, payload): a signature by the signer over the canonical
\* payload
sign(k, x) == [by |-> getSignerID(k), over |-> stableStringify(x)]

\* verify(signature, payload, signerID)
verify(sig, x, id) == sig.by = id /\ sig.over = stableStringify(x)

\* the X25519 shared secret of one side's secret and the other side's ID: the
\* same for both sides of a pair, different for different pairs
SharedSecret(k, id) == {getSealerID(k), id}

\* mutant: the authentication tag is not checked
TagNotChecked(c, key, nOnce) == TRUE

\* XSalsa20-Poly1305: the tag of a ciphertext matches under the key and nonce
\* it was made with
TagMatches(c, key, nOnce) == c.key = key /\ c.nonce = nOnce

\* seal({message, from, to, nOnceMaterial})
seal(message, from, to, nOnceMaterial) ==
    [key |-> SharedSecret(from, to), nonce |-> nOnceMaterial,
     plaintext |-> stableStringify(message)]

\* the outcomes of unseal and decryptForTransaction: a value, undefined, or
\* an error thrown
Returned(value) == [outcome |-> "value", value |-> value]
ReturnedUndefined == [outcome |-> "undefined", value |-> <<>>]
Thrown(error) == [outcome |-> error, value |-> <<>>]
NoOutcome == [outcome |-> "none", value |-> <<>>]

\* unseal(sealed, sealer, from, nOnceMaterial)
unseal(sealed, sealer, from, nOnceMaterial) ==
    IF TagMatches(sealed, SharedSecret(sealer, from), nOnceMaterial)
    THEN Returned(sealed.plaintext)
    ELSE Thrown("Wrong tag")

\* encryptForTransaction(changes, keySecret, nOnceMaterial)
encryptForTransaction(changes, keySecret, nOnceMaterial) ==
    [key |-> keySecret, nonce |-> nOnceMaterial,
     plaintext |-> stableStringify(changes)]

\* mutant: the plaintext is returned whatever the key
DecryptsAnyway(c, keySecret, nOnceMaterial) == TRUE

\* the ciphertext decrypts under the key and nonce it was made with
Decrypts(c, keySecret, nOnceMaterial) ==
    c.key = keySecret /\ c.nonce = nOnceMaterial

\* decryptForTransaction(encrypted, keySecret, nOnceMaterial)
decryptForTransaction(encrypted, keySecret, nOnceMaterial) ==
    IF Decrypts(encrypted, keySecret, nOnceMaterial)
    THEN Returned(encrypted.plaintext)
    ELSE ReturnedUndefined

\* newRandomKeySecret(): {secret, id}
KeySecret(k) == [secret |-> <<"keySecret", k>>, id |-> <<"key", k>>]

\* encryptKeySecret({toEncrypt, encrypting}): the secret of toEncrypt under the
\* secret of encrypting, the nonce material being the two key IDs
encryptKeySecret(toEncrypt, encrypting) ==
    [encryptedID |-> toEncrypt.id, encryptingID |-> encrypting.id,
     encrypted |-> [key |-> encrypting.secret,
                    nonce |-> <<toEncrypt.id, encrypting.id>>,
                    plaintext |-> toEncrypt.secret]]

\* mutant: the wrapped secret is returned whatever the key
KeyDecryptsAnyway(c, secret, nOnce) == TRUE

\* the wrapped secret decrypts under the secret and nonce it was wrapped with
KeyDecrypts(c, secret, nOnce) == c.key = secret /\ c.nonce = nOnce

\* decryptKeySecret(encryptedInfo, sealingSecret)
decryptKeySecret(encryptedInfo, sealingSecret) ==
    IF KeyDecrypts(encryptedInfo.encrypted, sealingSecret,
                   <<encryptedInfo.encryptedID, encryptedInfo.encryptingID>>)
    THEN Returned(encryptedInfo.encrypted.plaintext)
    ELSE ReturnedUndefined

\* mutant: the hash is taken over the entries in insertion order
HashOfInsertionOrder(x) == <<"blake3", x>>

\* secureHash(value): blake3 of the canonical encoding
secureHash(x) == <<"blake3", stableStringify(x)>>

\* shortHash(value): the first bytes of the same hash
shortHash(x) == <<"blake3 short", secureHash(x)[2]>>

NoKeyCase == [toEncrypt |-> 0, encrypting |-> 0, decrypting |-> 0,
              result |-> NoOutcome]
NoHashCase == [value |-> <<>>, value2 |-> <<>>, secure |-> <<>>,
               secure2 |-> <<>>, short |-> <<>>, short2 |-> <<>>]

NoSigCase == [signer |-> 0, verifier |-> 0, signed |-> <<>>,
              verified |-> <<>>, result |-> FALSE]
NoSealCase == [from |-> 0, to |-> 0, sealer |-> 0, nonce |-> 0,
               unsealNonce |-> 0, message |-> <<>>, result |-> NoOutcome]
NoTxCase == [secret |-> 0, secret2 |-> 0, nonce |-> 0, decryptNonce |-> 0,
             changes |-> <<>>, result |-> NoOutcome]

\* the crypto variables before any test; each test starts from here, so they
\* hold the case of the last test only
NoCrypto ==
    /\ sigCase = NoSigCase
    /\ sealCase = NoSealCase
    /\ txCase = NoTxCase
    /\ keyCase = NoKeyCase
    /\ hashCase = NoHashCase

\* const signature = sign(signer, data);
\* verify(signature, data2, getSignerID(signer2))
SignAndVerify(signer, signer2, data, data2) ==
    /\ sigCase' = [signer |-> signer, verifier |-> signer2, signed |-> data,
                   verified |-> data2,
                   result |-> verify(sign(signer, data), data2,
                                     getSignerID(signer2))]
    /\ sealCase' = NoSealCase
    /\ txCase' = NoTxCase
    /\ keyCase' = NoKeyCase
    /\ hashCase' = NoHashCase

\* const sealed = seal({message: data, from: sender, to: getSealerID(sealer),
\*     nOnceMaterial}); unseal(sealed, sealer2, getSealerID(sender), n2)
SealAndUnseal(sender, sealer, sealer2, n, n2, data) ==
    /\ sealCase' = [from |-> sender, to |-> sealer, sealer |-> sealer2,
                    nonce |-> n, unsealNonce |-> n2, message |-> data,
                    result |-> unseal(seal(data, sender, getSealerID(sealer), n),
                                      sealer2, getSealerID(sender), n2)]
    /\ sigCase' = NoSigCase
    /\ txCase' = NoTxCase
    /\ keyCase' = NoKeyCase
    /\ hashCase' = NoHashCase

\* const encrypted = encryptForTransaction(changes, secret, n);
\* decryptForTransaction(encrypted, secret2, n2)
EncryptAndDecrypt(secret, secret2, n, n2, changes) ==
    /\ txCase' = [secret |-> secret, secret2 |-> secret2, nonce |-> n,
                  decryptNonce |-> n2, changes |-> changes,
                  result |-> decryptForTransaction(
                                 encryptForTransaction(changes, secret, n),
                                 secret2, n2)]
    /\ sigCase' = NoSigCase
    /\ sealCase' = NoSealCase
    /\ keyCase' = NoKeyCase
    /\ hashCase' = NoHashCase

\* const encrypted = encryptKeySecret({toEncrypt, encrypting});
\* decryptKeySecret(encrypted, decrypting.secret)
EncryptAndDecryptKeySecret(toEncrypt, encrypting, decrypting) ==
    /\ keyCase' = [toEncrypt |-> toEncrypt, encrypting |-> encrypting,
                   decrypting |-> decrypting,
                   result |-> decryptKeySecret(
                                  encryptKeySecret(KeySecret(toEncrypt),
                                                   KeySecret(encrypting)),
                                  KeySecret(decrypting).secret)]
    /\ sigCase' = NoSigCase
    /\ sealCase' = NoSealCase
    /\ txCase' = NoTxCase
    /\ hashCase' = NoHashCase

\* secureHash(data), secureHash(data2), shortHash(data), shortHash(data2)
Hash(data, data2) ==
    /\ hashCase' = [value |-> data, value2 |-> data2,
                    secure |-> secureHash(data), secure2 |-> secureHash(data2),
                    short |-> shortHash(data), short2 |-> shortHash(data2)]
    /\ sigCase' = NoSigCase
    /\ sealCase' = NoSealCase
    /\ txCase' = NoTxCase
    /\ keyCase' = NoKeyCase

(***************************************************************************)
(* A map and a stream of one node (cojson): local edits and pushes, and    *)
(* the views read back.                                                    *)
(***************************************************************************)
\* the sessions that push to the stream, two of each account: <<accountID, n>>
StreamSessions == Accounts \X {1, 2}

\* node.currentSessionID
currentSessionID == <<localAccount, 1>>

\* mutant: the first writer of a key wins
FirstEditAt(txs, key) ==
    LET on == {i \in 1..Len(txs) : txs[i].key = key}
    IN  IF on = {} THEN [key |-> key, value |-> NoValue, by |-> 0]
        ELSE txs[CHOOSE i \in on : \A j \in on : i <= j]

\* map.lastEditAt(key): the last transaction on key in the merge order
lastEditAt(txs, key) ==
    LET on == {i \in 1..Len(txs) : txs[i].key = key}
    IN  IF on = {} THEN [key |-> key, value |-> NoValue, by |-> 0]
        ELSE txs[CHOOSE i \in on : \A j \in on : j <= i]

\* map.get(key): the value of the last edit on key
MapGet(txs, key) == lastEditAt(txs, key).value

\* an entry of a stream view for no pushes
UndefinedEntry == [last |-> NoValue, by |-> 0, all |-> <<>>]

\* mutant: last is the first value pushed
FirstOf(all) == IF all = <<>> THEN NoValue ELSE all[1]

\* last: the most recent push
LastOf(all) == IF all = <<>> THEN NoValue ELSE all[Len(all)]

\* the entries of a set of sessions, in the order of their madeAt
InOrderOfMadeAt(its, sessions) ==
    LET E == {e \in sessions \X (1..MaxPush + 1) : e[2] <= Len(its[e[1]])}
        at(e) == its[e[1]][e[2]].madeAt
        rank(e) == Cardinality({f \in E : at(f) < at(e)}) + 1
    IN  [r \in 1..Cardinality(E) |->
            LET e == CHOOSE e \in E : rank(e) = r
            IN  its[e[1]][e[2]].value]

\* the entry of a view: last, by, all
Entry(all, by) ==
    IF all = <<>> THEN UndefinedEntry
    ELSE [last |-> LastOf(all), by |-> by, all |-> all]

\* perSession[sessionID]
perSession(its) ==
    [s \in StreamSessions |-> Entry(InOrderOfMadeAt(its, {s}), s[1])]

\* perAccount[accountID]: the sessions of one account folded
perAccount(its) ==
    [a \in Accounts |->
        Entry(InOrderOfMadeAt(its, {s \in StreamSessions : s[1] = a}), a)]

\* the view of the stream handed to the query callback
StreamView(its, current) ==
    [perSession |-> perSession(its), perAccount |-> perAccount(its),
     me |-> perSession(its)[current]]

NoEdit == [key |-> "", value |-> "", inside |-> ""]

\* the variables of the map and the stream when they are not in use
NoLocal ==
    /\ localAccount = 0
    /\ localMap = <<>>
    /\ lastEdit = NoEdit
    /\ items = <<>>
    /\ pushLog = <<>>
    /\ queriedStream = <<>>

\* LocalNode.withNewlyCreatedAccount, node.createGroup, group.createMap,
\* group.createStream, node.query(stream.id, ...)
InitLocalVars ==
    /\ localAccount \in Accounts
    /\ localMap = <<>>
    /\ lastEdit = NoEdit
    /\ items = [s \in StreamSessions |-> <<>>]
    /\ pushLog = <<>>
    /\ queriedStream = StreamView(items, currentSessionID)

\* map = map.edit((edit) => { edit.set(key, value, "private");
\*     edit.get(key) })
Edit(key, value) ==
    /\ Len(localMap) < MaxTx
    /\ localMap' = Append(localMap,
                          [key |-> key, value |-> value, by |-> localAccount])
    /\ lastEdit' = [key |-> key, value |-> value,
                    inside |-> MapGet(localMap', key)]
    /\ UNCHANGED <<localAccount, items, pushLog, queriedStream>>

\* stream = stream.push(value), made in session s; the query callback is
\* called with the new view
Push(s, value) ==
    /\ Len(pushLog) < MaxPush
    /\ items' = [items EXCEPT ![s] =
                    Append(@, [value |-> value, madeAt |-> Len(pushLog) + 1])]
    /\ pushLog' = Append(pushLog, value)
    /\ queriedStream' = StreamView(items', currentSessionID)
    /\ UNCHANGED <<localAccount, localMap, lastEdit>>

(***************************************************************************)
(* createBrowserNode and the auth providers                                *)
(***************************************************************************)
\* a call the driver has not made
NoCall == [pc |-> "idle", kind |-> "none", accountID |-> 0, h |-> 0]

\* a call that is over: it resolved ("done") or rejected ("failed")
CallOver(outcome) == [pc |-> outcome, kind |-> "none", accountID |-> 0, h |-> 0]

\* the auth variables of a device on which no auth provider runs
NoAuth ==
    /\ authKind = "none"
    /\ loggedIn = 0
    /\ existingUsers = {}
    /\ cnPc = "notCalled"
    /\ cnHandle = 0
    /\ call = [c \in Calls |-> NoCall]
    /\ getSessionForCount = 0
    /\ onReadyCount = 0
    /\ onSignedInCount = 0
    /\ sessionDone = 0

\* the node variables of a tab in which createBrowserNode has not been called
NoNode ==
    /\ initialReconnectionTimeout = DefaultReconnectionTimeout
    /\ currentReconnectionTimeout = DefaultReconnectionTimeout
    /\ shouldTryToReconnect = TRUE
    /\ onlineListener = FALSE
    /\ loopPc = "notStarted"
    /\ waitDelay = 0
    /\ nodeLive = FALSE
    /\ nodeDone = FALSE
    /\ peers = {}
    /\ closeRequested = {}
    /\ onlineFired = FALSE

\* [await IDBStorage.asPeer(), firstWsPeer]
InitialPeers == {0, 1}

\* mutant: no registered peer is taken for a websocket peer
IsWebSocketPeerNever(p) == FALSE

\* peerId.includes(syncAddress)
IsWebSocketPeer(p) == p # 0

\* createWebSocketPeer(syncAddress): a peer whose id (syncAddress + "@" + the
\* time) no registered peer has
createWebSocketPeer(ps) ==
    CHOOSE p \in 1..(Cardinality(ps) + 1) :
        p \notin ps /\ \A q \in 1..(p - 1) : q \in ps

\* the session provider createBrowserNode hands to auth.createNode:
\*   const sessionHandle = getSessionHandleFor(accountID);
\*   sessionDone = sessionHandle.done;
\*   return sessionHandle.session;
\* h is the new handle
getSessionFor(h, a) ==
    /\ \A g \in 1..(h - 1) : handle[g].pc # "none"
    /\ GetSessionHandleFor(h, a)
    /\ sessionDone' = h
    /\ getSessionForCount' = getSessionForCount + 1

\* mutant: the doubling is not capped
NextReconnectionTimeoutUncapped(t) == t * 2

\* mutant: the timeout is not doubled
NextReconnectionTimeoutNotDoubled(t) == Min(t, MaxReconnectionTimeout)

\* Math.min(currentReconnectionTimeout * 2, 30000)
NextReconnectionTimeout(t) == Min(t * 2, MaxReconnectionTimeout)

\* mutant: onOnline leaves the timeout as it is
OnOnlineNoReset == currentReconnectionTimeout

\* onOnline: currentReconnectionTimeout = initialReconnectionTimeout
OnOnline == initialReconnectionTimeout

\* one turn of while (shouldTryToReconnect) {...} up to its await, with ps
\* the registered peers
LoopTurn(ps) ==
    IF ~shouldTryToReconnect
    THEN /\ loopPc' = "exited"
         /\ waitDelay' = 0
         /\ UNCHANGED currentReconnectionTimeout
    ELSE IF \E p \in ps : IsWebSocketPeer(p)
    THEN /\ loopPc' = "poll"
         /\ waitDelay' = 0
         /\ UNCHANGED currentReconnectionTimeout
    ELSE /\ currentReconnectionTimeout' =
              NextReconnectionTimeout(currentReconnectionTimeout)
         /\ waitDelay' = currentReconnectionTimeout'
         /\ loopPc' = "backoff"

\* doneSigningUpOrLoggingIn(node), or createNode returning the node: the first
\* one settles the promise of createNode; createBrowserNode then starts the
\* reconnect loop and returns the handle. The node has the initial peers.
NodeObtained ==
    IF cnPc # "resolved"
    THEN /\ cnPc' = "resolved"
         /\ nodeLive' = TRUE
         /\ peers' = InitialPeers
         /\ LoopTurn(InitialPeers)
         /\ onlineFired' = FALSE
         /\ UNCHANGED <<initialReconnectionTimeout, shouldTryToReconnect,
                        onlineListener, nodeDone, closeRequested>>
    ELSE UNCHANGED <<cnPc, nodeVars>>

\* the driver hands the callbacks of onReady to its UI until onSignedIn is
\* invoked (authState.state === "ready")
DriverReady == onReadyCount > 0 /\ onSignedInCount = 0

\* createBrowserNode up to await auth.createNode(...), and createNode up to
\* its first await
CreateBrowserNode ==
    /\ cnPc = "notCalled"
    /\ currentReconnectionTimeout' = initialReconnectionTimeout
    /\ shouldTryToReconnect' = TRUE
    /\ onlineListener' = TRUE
    /\ UNCHANGED <<initialReconnectionTimeout, loopPc, waitDelay, nodeLive,
                   nodeDone, peers, closeRequested, onlineFired>>
    /\ UNCHANGED <<authKind, loggedIn, existingUsers, call, onSignedInCount>>
    /\ IF loggedIn # 0
       THEN /\ \E h \in Handles : getSessionFor(h, loggedIn) /\ cnHandle' = h
            /\ cnPc' = "awaitSession"
            /\ UNCHANGED onReadyCount
       ELSE /\ cnPc' = "ready"
            /\ onReadyCount' = onReadyCount + 1
            /\ UNCHANGED <<cnHandle, sessionDone, getSessionForCount, sessionVars>>

\* createNode, stored credentials: const sessionID = await getSessionFor(...)
\* is over and LocalNode.withLoadedAccount is called
CreateNodeSession ==
    /\ cnPc = "awaitSession"
    /\ Resolved(cnHandle)
    /\ cnPc' = "awaitLoad"
    /\ UNCHANGED <<sessionVars, nodeVars>>
    /\ UNCHANGED <<authKind, loggedIn, existingUsers, cnHandle, call,
                   getSessionForCount, onReadyCount, onSignedInCount, sessionDone>>

\* createNode, stored credentials: withLoadedAccount settles
CreateNodeLoaded(ok) ==
    /\ cnPc = "awaitLoad"
    /\ IF ok
       THEN /\ NodeObtained
            /\ onSignedInCount' = onSignedInCount + 1
       ELSE /\ cnPc' = "rejected"
            /\ UNCHANGED <<nodeVars, onSignedInCount>>
    /\ UNCHANGED sessionVars
    /\ UNCHANGED <<authKind, loggedIn, existingUsers, cnHandle, call,
                   getSessionForCount, onReadyCount, sessionDone>>

\* the driver calls signUp(username[, passphrase]): up to the await of
\* LocalNode.withNewlyCreatedAccount. (A call whose passphrase
\* bip39.mnemonicToEntropy throws on rejects before it has changed anything.)
SignUp(c, a) ==
    /\ DriverReady
    /\ call[c].pc = "idle"
    /\ \A d \in 1..(c - 1) : call[d].pc # "idle"
    /\ call' = [call EXCEPT ![c] =
                  [pc |-> "creating", kind |-> "signUp", accountID |-> a, h |-> 0]]
    /\ UNCHANGED <<sessionVars, nodeVars>>
    /\ UNCHANGED <<authKind, loggedIn, existingUsers, cnPc, cnHandle,
                   getSessionForCount, onReadyCount, onSignedInCount, sessionDone>>

\* signUp after the account was created: the credentials are stored; the
\* passphrase provider then awaits getSessionFor, the demo provider adds the
\* peers and hands over the node
SignUpCreated(c) ==
    /\ call[c].pc = "creating"
    /\ loggedIn' = call[c].accountID
    /\ UNCHANGED <<authKind, cnHandle, onReadyCount>>
    /\ IF authKind = "passphrase"
       THEN /\ \E h \in Handles :
                 /\ getSessionFor(h, call[c].accountID)
                 /\ call' = [call EXCEPT ![c].pc = "awaitSession", ![c].h = h]
            /\ UNCHANGED <<existingUsers, cnPc, onSignedInCount, nodeVars>>
       ELSE /\ existingUsers' = existingUsers \cup {call[c].accountID}
            /\ NodeObtained
            /\ onSignedInCount' = onSignedInCount + 1
            /\ call' = [call EXCEPT ![c] = CallOver("done")]
            /\ UNCHANGED <<sessionVars, sessionDone, getSessionForCount>>

\* the driver calls logIn(passphrase) or logInAs(existingUser): the
\* credentials are stored and getSessionFor is called. (A call rejects before
\* it has changed anything when mnemonicToEntropy throws on the passphrase,
\* or JSON.parse on the missing entry of a user that does not exist.)
LogIn(c, a) ==
    /\ DriverReady
    /\ call[c].pc = "idle"
    /\ \A d \in 1..(c - 1) : call[d].pc # "idle"
    /\ authKind = "demo" => a \in existingUsers
    /\ loggedIn' = a
    /\ \E h \in Handles :
         /\ getSessionFor(h, a)
         /\ call' = [call EXCEPT ![c] =
               [pc |-> "awaitSession",
                kind |-> IF authKind = "demo" THEN "logInAs" ELSE "logIn",
                accountID |-> a, h |-> h]]
    /\ UNCHANGED <<authKind, existingUsers, cnPc, cnHandle, onReadyCount,
                   onSignedInCount, nodeVars>>

\* await getSessionFor(accountID) of a call is over: signUp sets
\* node.currentSessionID, adds the peers and hands over the node; logIn and
\* logInAs call LocalNode.withLoadedAccount
CallSession(c) ==
    /\ call[c].pc = "awaitSession"
    /\ Resolved(call[c].h)
    /\ IF call[c].kind = "signUp"
       THEN /\ NodeObtained
            /\ onSignedInCount' = onSignedInCount + 1
            /\ call' = [call EXCEPT ![c] = CallOver("done")]
       ELSE /\ call' = [call EXCEPT ![c].pc = "awaitLoad"]
            /\ UNCHANGED <<cnPc, onSignedInCount, nodeVars>>
    /\ UNCHANGED sessionVars
    /\ UNCHANGED <<authKind, loggedIn, existingUsers, cnHandle,
                   getSessionForCount, onReadyCount, sessionDone>>

\* withLoadedAccount of logIn or logInAs settles: the node is handed over, or
\* the call rejects
CallLoaded(c, ok) ==
    /\ call[c].pc = "awaitLoad"
    /\ IF ok
       THEN /\ NodeObtained
            /\ onSignedInCount' = onSignedInCount + 1
            /\ call' = [call EXCEPT ![c] = CallOver("done")]
       ELSE /\ call' = [call EXCEPT ![c] = CallOver("failed")]
            /\ UNCHANGED <<cnPc, onSignedInCount, nodeVars>>
    /\ UNCHANGED sessionVars
    /\ UNCHANGED <<authKind, loggedIn, existingUsers, cnHandle,
                   getSessionForCount, onReadyCount, sessionDone>>

\* setTimeout(resolve, 100) is over: the loop goes round
PollResume ==
    /\ loopPc = "poll"
    /\ LoopTurn(peers)
    /\ onlineFired' = FALSE
    /\ UNCHANGED <<initialReconnectionTimeout, shouldTryToReconnect,
                   onlineListener, nodeLive, nodeDone, peers, closeRequested>>
    /\ UNCHANGED <<sessionVars, authVars>>

\* the reconnection wait is over (its timeout, or its "online" listener):
\* node.syncManager.addPeer(createWebSocketPeer(syncAddress)), and the loop
\* goes round
BackoffResume ==
    /\ loopPc = "backoff"
    /\ peers' = peers \cup {createWebSocketPeer(peers)}
    /\ LoopTurn(peers')
    /\ onlineFired' = FALSE
    /\ UNCHANGED <<initialReconnectionTimeout, shouldTryToReconnect,
                   onlineListener, nodeLive, nodeDone, closeRequested>>
    /\ UNCHANGED <<sessionVars, authVars>>

\* the window's "online" event: onOnline runs when it is registered
Online ==
    /\ cnPc # "notCalled"
    /\ currentReconnectionTimeout' =
          IF onlineListener THEN OnOnline ELSE currentReconnectionTimeout
    /\ onlineFired' = TRUE
    /\ UNCHANGED <<initialReconnectionTimeout, shouldTryToReconnect,
                   onlineListener, loopPc, waitDelay, nodeLive, nodeDone,
                   peers, closeRequested>>
    /\ UNCHANGED <<sessionVars, authVars>>

\* the channel of peer p ended and the sync manager removed the peer
PeerClosed(p) ==
    /\ p \in peers
    /\ IsWebSocketPeer(p) \/ p \in closeRequested
    /\ peers' = peers \ {p}
    /\ closeRequested' = closeRequested \ {p}
    /\ onlineFired' = FALSE
    /\ UNCHANGED <<initialReconnectionTimeout, currentReconnectionTimeout,
                   shouldTryToReconnect, onlineListener, loopPc, waitDelay,
                   nodeLive, nodeDone>>
    /\ UNCHANGED <<sessionVars, authVars>>

\* done() of the node handle
NodeDone ==
    /\ nodeLive
    /\ shouldTryToReconnect' = FALSE
    /\ onlineListener' = FALSE
    /\ closeRequested' = closeRequested \cup peers
    /\ nodeDone' = TRUE
    /\ onlineFired' = FALSE
    /\ handle' = IF sessionDone # 0
                 THEN [handle EXCEPT ![sessionDone].doneCalled = TRUE]
                 ELSE handle
    /\ UNCHANGED <<locks, sessionStore, nonce, issued>>
    /\ UNCHANGED <<initialReconnectionTimeout, currentReconnectionTimeout,
                   loopPc, waitDelay, nodeLive, peers>>
    /\ UNCHANGED authVars

\* a tab with an auth provider, with or without stored credentials, in which
\* createBrowserNode is about to be called
InitNode ==
    /\ InitSessionVars
    /\ NoWs
    /\ NoSync
    /\ NoQuery
    /\ NoInvite
    /\ NoBlob
    /\ NoCrypto
    /\ NoLocal
    /\ authKind \in {"passphrase", "demo"}
    /\ existingUsers \in SUBSET Accounts
    /\ authKind = "passphrase" => existingUsers = {}
    /\ loggedIn \in {0} \cup Accounts
    /\ (authKind = "demo" /\ loggedIn # 0) => loggedIn \in existingUsers
    /\ cnPc = "notCalled"
    /\ cnHandle = 0
    /\ call = [c \in Calls |-> NoCall]
    /\ getSessionForCount = 0
    /\ onReadyCount = 0
    /\ onSignedInCount = 0
    /\ sessionDone = 0
    /\ initialReconnectionTimeout \in ReconnectionTimeouts
    /\ currentReconnectionTimeout = initialReconnectionTimeout
    /\ shouldTryToReconnect = TRUE
    /\ onlineListener = FALSE
    /\ loopPc = "notStarted"
    /\ waitDelay = 0
    /\ nodeLive = FALSE
    /\ nodeDone = FALSE
    /\ peers = {}
    /\ closeRequested = {}
    /\ onlineFired = FALSE

NextNode ==
    \/ CreateBrowserNode
          /\ UNCHANGED outsideNode
    \/ CreateNodeSession
          /\ UNCHANGED outsideNode
    \/ \E ok \in BOOLEAN : CreateNodeLoaded(ok)
          /\ UNCHANGED outsideNode
    \/ \E c \in Calls, a \in Accounts : SignUp(c, a)
          /\ UNCHANGED outsideNode
    \/ \E c \in Calls : SignUpCreated(c)
          /\ UNCHANGED outsideNode
    \/ \E c \in Calls, a \in Accounts : LogIn(c, a)
          /\ UNCHANGED outsideNode
    \/ \E c \in Calls : CallSession(c)
          /\ UNCHANGED outsideNode
    \/ \E c \in Calls, ok \in BOOLEAN : CallLoaded(c, ok)
          /\ UNCHANGED outsideNode
    \/ \E h \in Handles : LocksRequest(h)
          /\ UNCHANGED outsideSession
    \/ \E h \in Handles : SessionFinished(h)
          /\ UNCHANGED outsideSession
    \/ PollResume
          /\ UNCHANGED outsideNode
    \/ BackoffResume
          /\ UNCHANGED outsideNode
    \/ Online
          /\ UNCHANGED outsideNode
    \/ \E p \in peers : PeerClosed(p)
          /\ UNCHANGED outsideNode
    \/ NodeDone
          /\ UNCHANGED outsideNode

SpecNode == InitNode /\ [][NextNode]_vars

\* the same tab when credentials are stored: createNode loads the account
\* itself and the driver is handed no callbacks
InitReconnect == InitNode /\ loggedIn # 0

NextReconnect ==
    \/ CreateBrowserNode
          /\ UNCHANGED outsideNode
    \/ CreateNodeSession
          /\ UNCHANGED outsideNode
    \/ \E ok \in BOOLEAN : CreateNodeLoaded(ok)
          /\ UNCHANGED outsideNode
    \/ \E h \in Handles : LocksRequest(h)
          /\ UNCHANGED outsideSession
    \/ \E h \in Handles : SessionFinished(h)
          /\ UNCHANGED outsideSession
    \/ PollResume
          /\ UNCHANGED outsideNode
    \/ BackoffResume
          /\ UNCHANGED outsideNode
    \/ Online
          /\ UNCHANGED outsideNode
    \/ \E p \in peers : PeerClosed(p)
          /\ UNCHANGED outsideNode
    \/ NodeDone
          /\ UNCHANGED outsideNode

SpecReconnect == InitReconnect /\ [][NextReconnect]_vars

(***************************************************************************)
(* The specifications of the sync between two nodes                        *)
(***************************************************************************)
InitSync ==
    /\ InitSessionVars
    /\ NoAuth
    /\ NoNode
    /\ NoWs
    /\ InitSyncVars
    /\ NoQuery
    /\ NoInvite
    /\ NoBlob
    /\ NoCrypto
    /\ NoLocal

NextSync ==
    \/ \E type \in {"known", "load"} : LoadAccount(type)
          /\ UNCHANGED outsideSync
    \/ \E type \in {"known", "load"} : LoadMap(type)
          /\ UNCHANGED outsideSync
    \/ \E n \in Nodes : ReceiveKnown(n)
          /\ UNCHANGED outsideSync
    \/ \E n \in Nodes : ReceiveLoad(n)
          /\ UNCHANGED outsideSync
    \/ \E n \in Nodes : ReceiveContent(n)
          /\ UNCHANGED outsideSync

SpecSync == InitSync /\ [][NextSync]_vars

\* the loads are awaited one after the other, and the in-memory channel hands
\* every message to the sync manager at its end
FairSpecSync == SpecSync /\ WF_vars(NextSync)

(***************************************************************************)
(* The specifications of one query subscription                            *)
(***************************************************************************)
InitQuery ==
    /\ InitSessionVars
    /\ NoAuth
    /\ NoNode
    /\ NoWs
    /\ NoSync
    /\ InitQueryVars
    /\ NoInvite
    /\ NoBlob
    /\ NoCrypto
    /\ NoLocal

NextQuery ==
    \/ Query
          /\ UNCHANGED outsideQuery
    \/ \E key \in MapKeys : WriteM(key)
          /\ UNCHANGED outsideQuery
    \/ \E value \in SubMapValues : WriteS(value)
          /\ UNCHANGED outsideQuery
    \/ \E co \in QueryCoValues : LoadDone(co)
          /\ UNCHANGED outsideQuery
    \/ Deliver
          /\ UNCHANGED outsideQuery
    \/ Unsubscribe
          /\ UNCHANGED outsideQuery

SpecQuery == InitQuery /\ [][NextQuery]_vars

\* a due callback is invoked and a load that was started ends
FairSpecQuery ==
    /\ SpecQuery
    /\ WF_vars(Deliver /\ UNCHANGED outsideQuery)
    /\ \A co \in QueryCoValues : WF_vars(LoadDone(co) /\ UNCHANGED outsideQuery)

(***************************************************************************)
(* The specification of the invite links                                   *)
(***************************************************************************)
InitInvite ==
    /\ InitSessionVars
    /\ NoAuth
    /\ NoNode
    /\ NoWs
    /\ NoSync
    /\ NoQuery
    /\ InitInviteVars
    /\ NoBlob
    /\ NoCrypto
    /\ NoLocal

NextInvite ==
    \/ CreateInviteLink
          /\ UNCHANGED outsideInvite
    \/ ParseInviteLink
          /\ UNCHANGED outsideInvite
    \/ \E withInvite \in BOOLEAN : Navigate(withInvite)
          /\ UNCHANGED outsideInvite
    \/ ConsumeInviteLink
          /\ UNCHANGED outsideInvite
    \/ \E ok \in BOOLEAN : AcceptInviteSettled(ok)
          /\ UNCHANGED outsideInvite

SpecInvite == InitInvite /\ [][NextInvite]_vars

(***************************************************************************)
(* The specification of the binary streams of blobs                        *)
(***************************************************************************)
InitBlob ==
    /\ InitSessionVars
    /\ NoAuth
    /\ NoNode
    /\ NoWs
    /\ NoSync
    /\ NoQuery
    /\ NoInvite
    /\ InitBlobVars
    /\ NoCrypto
    /\ NoLocal

NextBlob ==
    \/ ReaderOnLoad
          /\ UNCHANGED outsideBlob
    \/ ReaderFails
          /\ UNCHANGED outsideBlob
    \/ LoopResume
          /\ UNCHANGED outsideBlob
    \/ \E available \in BOOLEAN, allowUnfinished \in {"true", "false", "undefined"} :
          ReadBlob(available, allowUnfinished)
          /\ UNCHANGED outsideBlob

SpecBlob == InitBlob /\ [][NextBlob]_vars

(***************************************************************************)
(* The specification of the crypto primitives                              *)
(***************************************************************************)
InitCrypto ==
    /\ InitSessionVars
    /\ NoAuth
    /\ NoNode
    /\ NoWs
    /\ NoSync
    /\ NoQuery
    /\ NoInvite
    /\ NoBlob
    /\ NoCrypto
    /\ NoLocal

NextCrypto ==
    \/ \E signer, signer2 \in Secrets, data, data2 \in Payloads :
          SignAndVerify(signer, signer2, data, data2)
          /\ UNCHANGED outsideCrypto
    \/ \E sender, sealer, sealer2 \in Secrets, n, n2 \in NonceMaterials,
          data \in Payloads :
          SealAndUnseal(sender, sealer, sealer2, n, n2, data)
          /\ UNCHANGED outsideCrypto
    \/ \E secret, secret2 \in Secrets, n, n2 \in NonceMaterials,
          changes \in Payloads :
          EncryptAndDecrypt(secret, secret2, n, n2, changes)
          /\ UNCHANGED outsideCrypto
    \/ \E toEncrypt, encrypting, decrypting \in Secrets :
          EncryptAndDecryptKeySecret(toEncrypt, encrypting, decrypting)
          /\ UNCHANGED outsideCrypto
    \/ \E data, data2 \in Payloads :
          Hash(data, data2)
          /\ UNCHANGED outsideCrypto

SpecCrypto == InitCrypto /\ [][NextCrypto]_vars

(***************************************************************************)
(* The specification of a map and a stream of one node                     *)
(***************************************************************************)
InitLocal ==
    /\ InitSessionVars
    /\ NoAuth
    /\ NoNode
    /\ NoWs
    /\ NoSync
    /\ NoQuery
    /\ NoInvite
    /\ NoBlob
    /\ NoCrypto
    /\ InitLocalVars

NextLocal ==
    \/ \E key \in Keys, value \in Values :
          Edit(key, value) /\ UNCHANGED outsideLocal
    \/ \E s \in StreamSessions, value \in Values :
          Push(s, value) /\ UNCHANGED outsideLocal

SpecLocal == InitLocal /\ [][NextLocal]_vars

(***************************************************************************)
(* The specification of getSessionHandleFor in a tab with two handles,     *)
(* while the handles of other tabs hold the slots of an account            *)
(***************************************************************************)
InitSlots ==
    /\ InitSlotsVars
    /\ NoAuth
    /\ NoNode
    /\ NoWs
    /\ NoSync
    /\ NoQuery
    /\ NoInvite
    /\ NoBlob
    /\ NoCrypto
    /\ NoLocal

NextSlots ==
    \/ \E h \in {1, 2}, a \in {OtherTabsAccount} : GetSessionHandleFor(h, a)
          /\ UNCHANGED outsideSession
    \/ \E h \in {1, 2} : LocksRequest(h)
          /\ UNCHANGED outsideSession
    \/ \E h \in {1, 2} : Done(h)
          /\ UNCHANGED outsideSession
    \/ \E h \in {1, 2} : SessionFinished(h)
          /\ UNCHANGED outsideSession

SpecSlots == InitSlots /\ [][NextSlots]_vars

(***************************************************************************)
(* The specification of websocketReadableStream alone                      *)
(***************************************************************************)
InitWs ==
    /\ InitSessionVars
    /\ NoAuth
    /\ NoNode
    /\ NewWs
    /\ NoSync
    /\ NoQuery
    /\ NoInvite
    /\ NoBlob
    /\ NoCrypto
    /\ NoLocal

NextWs ==
    \/ WsOpen
          /\ UNCHANGED outsideWs
    \/ \E type \in MessageTypes : OnMessage(type)
          /\ UNCHANGED outsideWs
    \/ PingTimeout
          /\ UNCHANGED outsideWs
    \/ WsClose
          /\ UNCHANGED outsideWs
    \/ WsError
          /\ UNCHANGED outsideWs
    \/ Cancel
          /\ UNCHANGED outsideWs
    \/ Tick
          /\ UNCHANGED outsideWs
    \/ Write
          /\ UNCHANGED outsideWs
    \/ CloseWS
          /\ UNCHANGED outsideWs

SpecWs == InitWs /\ [][NextWs]_vars

(***************************************************************************)
(* The specifications of getSessionHandleFor alone                         *)
(***************************************************************************)
InitSession ==
    /\ InitSessionVars
    /\ NoAuth
    /\ NoNode
    /\ NoWs
    /\ NoSync
    /\ NoQuery
    /\ NoInvite
    /\ NoBlob
    /\ NoCrypto
    /\ NoLocal

NextSession ==
    \/ \E h \in Handles, a \in Accounts : GetSessionHandleFor(h, a)
          /\ UNCHANGED outsideSession
    \/ \E h \in Handles : LocksRequest(h)
          /\ UNCHANGED outsideSession
    \/ \E h \in Handles : Done(h)
          /\ UNCHANGED outsideSession
    \/ \E h \in Handles : SessionFinished(h)
          /\ UNCHANGED outsideSession
    \/ Restart
          /\ UNCHANGED outsideSession

SpecSession == InitSession /\ [][NextSession]_vars

\* the event loop runs every continuation that is ready
FairSpecSession ==
    /\ SpecSession
    /\ \A h \in Handles :
          WF_vars(SessionFinished(h) /\ UNCHANGED outsideSession)

(***************************************************************************)
(* Claims about getSessionHandleFor                                        *)
(***************************************************************************)
\* the handle exists and its done() has not been called
Live(h) == handle[h].pc # "none" /\ ~handle[h].doneCalled

\* the names of the locks handle h holds
LocksOf(h) == {<<t[1], t[2]>> : t \in {u \in locks : u[3] = h}}

\* C1: at no time do two handles whose done() has not been called hold the
\* same slot lock accountID_<slot>, and no two such handles have resolved to
\* the same session ID.
C1_NoSharedSlot ==
    \A h1, h2 \in Handles :
        (h1 # h2 /\ Live(h1) /\ Live(h2)) =>
            /\ LocksOf(h1) \cap LocksOf(h2) = {}
            /\ (Resolved(h1) /\ Resolved(h2)) =>
                   handle[h1].session # handle[h2].session

\* two live handles of one account have both resolved, on different slots
C1_Witness ==
    \E h1, h2 \in Handles :
        /\ h1 # h2 /\ Live(h1) /\ Live(h2)
        /\ handle[h1].accountID = handle[h2].accountID
        /\ Resolved(h1) /\ Resolved(h2)
        /\ LocksOf(h1) # {} /\ LocksOf(h2) # {}

\* C2: once a handle has resolved its session ID on slot i, the lock on slot i
\* stays held as long as the handle exists and its done() has not been called;
\* after done() is called the lock is eventually released.
C2_HeldUntilDone ==
    /\ [][\A h \in Handles :
            (/\ Resolved(h)
             /\ <<handle[h].accountID, handle[h].idx>> \in LocksOf(h)
             /\ handle'[h].pc # "none"
             /\ ~handle'[h].doneCalled)
            => <<handle[h].accountID, handle[h].idx>> \in LocksOf(h)']_vars
    /\ \A h \in Handles :
          (handle[h].doneCalled /\ LocksOf(h) # {}) ~> (LocksOf(h) = {})

\* a handle resolved on a slot, its done() was called and the lock released,
\* and another handle now holds the lock of the same slot
C2_Witness ==
    \E h1, h2 \in Handles :
        /\ handle[h1].pc = "finished" /\ Resolved(h1)
        /\ handle[h2].pc = "holding"
        /\ <<handle[h1].accountID, handle[h1].idx>> \in LocksOf(h2)

\* C4: the session ID returned when the slot lock is acquired is the one
\* stored for accountID_<slot> if one is stored; a new ID is minted, stored and
\* returned only when none is stored; so every acquisition of one (account,
\* slot), restarts included, returns the same session ID.
C4_StableSessionID ==
    /\ [][\A h \in Handles :
            (handle[h].pc = "trying" /\ handle'[h].pc = "holding") =>
                LET a == handle[h].accountID
                    idx == handle[h].idx
                IN  IF StoredAt(a, idx) # {}
                    THEN /\ handle'[h].session \in StoredAt(a, idx)
                         /\ sessionStore' = sessionStore
                         /\ nonce' = nonce
                    ELSE /\ handle'[h].session \notin {t[3] : t \in issued}
                         /\ StoredAt(a, idx)' = {handle'[h].session}]_vars
    /\ [](\A t1, t2 \in issued :
            (t1[1] = t2[1] /\ t1[2] = t2[2]) => t1[3] = t2[3])

\* after a restart a handle acquires slot 0 again and resolves to the ID that
\* was minted for it before slot 1 was ever used
C4_Witness ==
    \E h \in Handles :
        /\ handle[h].pc = "holding" /\ handle[h].idx = 0
        /\ handle[h].session = <<handle[h].accountID, 1>>
        /\ StoredAt(handle[h].accountID, 1) # {}
        /\ \A h2 \in Handles \ {h} : handle[h2].pc = "none"

(***************************************************************************)
(* Claims about createBrowserNode and the auth providers                   *)
(***************************************************************************)
\* a call of the driver is under way
CallInFlight(c) == call[c].pc \in {"creating", "awaitSession", "awaitLoad"}

\* nothing is left to run that could still release a session lock: the driver
\* makes no further call, no call is under way, no handle is still asking for
\* a lock and no handle whose done() was called still holds one
SessionsSettled ==
    /\ ~DriverReady
    /\ cnPc \in {"resolved", "rejected"}
    /\ \A c \in Calls : ~CallInFlight(c)
    /\ \A h \in Handles :
          /\ handle[h].pc # "trying"
          /\ ~(handle[h].pc = "holding" /\ handle[h].doneCalled)

\* C3: after done() is called on a browser node handle, a close has been
\* requested on the outgoing channel of every peer registered at that moment,
\* and every session lock acquired through the session provider is released
\* in the end (here: is released once nothing is left to run).
C3_DoneClosesPeersAndReleasesLocks ==
    /\ [][NodeDone => peers \subseteq closeRequested']_vars
    /\ []((nodeDone /\ SessionsSettled) => locks = {})

\* C5: the delay waited before a reconnection attempt never exceeds 30000 ms.
C5_DelayCapped == waitDelay <= MaxReconnectionTimeout

\* the loop waits 30000 ms although the configured timeout is larger
C5_Witness ==
    /\ loopPc = "backoff"
    /\ waitDelay = MaxReconnectionTimeout
    /\ initialReconnectionTimeout > MaxReconnectionTimeout

\* C6: right after an "online" event that occurs while the node handle is
\* live (done() not yet called), the current reconnection timeout is the
\* configured initial one.
C6_OnlineResets ==
    (onlineFired /\ nodeLive /\ ~nodeDone) =>
        currentReconnectionTimeout = initialReconnectionTimeout

\* an "online" event occurred during a reconnection wait of a live handle,
\* after the timeout had been doubled
C6_Witness ==
    /\ onlineFired /\ nodeLive /\ ~nodeDone
    /\ loopPc = "backoff"
    /\ waitDelay # currentReconnectionTimeout
    /\ currentReconnectionTimeout = initialReconnectionTimeout

\* C9: during one createNode call getSessionFor is invoked exactly once:
\* never twice, and once by the time createNode has handed over the node.
C9_GetSessionForOnce ==
    /\ getSessionForCount <= 1
    /\ cnPc = "resolved" => getSessionForCount = 1


(***************************************************************************)
(* Claims about websocketReadableStream                                    *)
(***************************************************************************)
\* the socket is no longer open: ws.close() was called on it, it failed, or
\* its close event has been dispatched
WsShut == wsState \in {"closing", "aborted", "failed", "closed"}

C8_ClosedWithoutAnyMessage ==
    (~gotMessage /\ idle = PingTimeoutMs /\ pingTimeout # 0) =>
        (WsShut /\ streamState # "readable")

\* C8: the idle timer is set by the first inbound message: before one has
\* arrived no timer is running and none has expired, so the idle timer does
\* not close a channel on which no message arrives.
C8_NoTimerBeforeFirstMessage ==
    ~gotMessage => (pingTimeout = NoTimer /\ ~pingTimedOut)

\* an open channel 2.5 s after its creation, no message received, still open
\* and readable
C8_Witness ==
    /\ ~gotMessage
    /\ idle = PingTimeoutMs
    /\ wsState = "open"
    /\ streamState = "readable"
    /\ pingTimeout = NoTimer


C11_MonotonicRead ==
    (prevDefined # UndefinedView) =>
        (prevDefined.m <= lastDefined.m /\ prevDefined.s <= lastDefined.s)

\* two defined views were delivered, the later one with a transaction of the
\* sub-map that the earlier one did not have
C11_Witness ==
    /\ prevDefined # UndefinedView
    /\ prevDefined.s >= 1
    /\ lastDefined.s > prevDefined.s
    /\ lastDefined.m >= 2

C12_UndefinedWitness ==
    /\ view = UndefinedView
    /\ lastDefined # UndefinedView
    /\ RefsS
    /\ ~loaded["S"]

\* C13: after unsubscribe was called the callback is never invoked again,
\* whatever is written to the queried covalue or its nested covalue.
C13_NoCallbackAfterUnsubscribe ==
    /\ ~calledAfterUnsub
    /\ subState = "cancelled" => (watchers = {} /\ pending = {})

\* after unsubscribe, further transactions were made in M and in S that no
\* view delivered shows
C13_Witness ==
    /\ subState = "cancelled"
    /\ lastDefined # UndefinedView
    /\ Len(mLog) > lastDefined.m
    /\ Len(sLog) > lastDefined.s
    /\ RefsS


(***************************************************************************)
(* Claims about the invite links                                           *)
(***************************************************************************)
\* C14: for every baseURL and every optional valueHint without "/",
\* parseInviteLink of the link createInviteLink made returns the value's ID,
\* the invite secret, and the hint that was given (undefined when none was).
C14_InviteLinkRoundTrip ==
    (/\ invitePc = "parsed"
     /\ \A i \in 1..Len(inviteInput.valueHint) : inviteInput.valueHint[i] # "/")
    => inviteResult = [valueID |-> ValueID, inviteSecret |-> InviteSecret,
                       valueHint |-> inviteInput.valueHint]


(***************************************************************************)
(* Claims about the binary streams of blobs                                *)
(***************************************************************************)
\* the stream is started; it is ended
Started(ops) == ops # <<>> /\ ops[1].op = "start"
Ended(ops) == ops # <<>> /\ ops[Len(ops)].op = "end"

\* C15: the operations are made in the order start, chunks, end: the first
\* operation, and only the first, is a start, which carries the blob's
\* mimeType, totalSizeBytes and fileName; an end is the last operation; and
\* the function returns after exactly one start and one end, the stream that
\* endBinaryStream returned.
C15_StartChunksEnd ==
    /\ \A i \in 1..Len(streamOps) :
          /\ streamOps[i].op = "start" <=> i = 1
          /\ streamOps[i].op = "end" => i = Len(streamOps)
    /\ Started(streamOps) =>
          streamOps[1] = [op |-> "start", mimeType |-> blob.type,
                          totalSizeBytes |-> Len(blob.bytes),
                          fileName |-> blob.name]
    /\ Ended(streamOps) <=> blobPc = "returned"
    /\ blobPc = "returned" <=> returnedStream # "none"
    /\ returnedStream # "none" =>
          (returnedStream = "ended" /\ Started(streamOps) /\ Ended(streamOps))

\* createBinaryStreamFromBlob has returned for a File of two chunks
C15_Witness ==
    /\ returnedStream = "ended"
    /\ Len(streamOps) = 4
    /\ streamOps[2].op = "chunk"
    /\ streamOps[3].op = "chunk"
    /\ blob.name # "undefined"
    /\ blob.bytes # <<>>

\* C16: every chunk pushed has at most MAX_RECOMMENDED_TX_SIZE bytes; the
\* chunks pushed so far, concatenated in push order, are the first bytes of
\* the blob, and all of its bytes once the function has returned; an empty
\* blob yields no chunk.
C16_ChunksAreTheBlob ==
    /\ \A i \in 1..Len(streamOps) :
          streamOps[i].op = "chunk" =>
              Len(streamOps[i].bytes) <= MAX_RECOMMENDED_TX_SIZE
    /\ Len(ChunkBytes(streamOps)) <= Len(blob.bytes)
    /\ ChunkBytes(streamOps) =
          SubSeq(blob.bytes, 1, Len(ChunkBytes(streamOps)))
    /\ blobPc = "returned" => ChunkBytes(streamOps) = blob.bytes
    /\ blob.bytes = <<>> =>
          \A i \in 1..Len(streamOps) : streamOps[i].op # "chunk"

\* a blob of more bytes than a chunk takes, not all the same, was pushed in a
\* full chunk and a shorter last one
C16_Witness ==
    /\ blobPc = "returned"
    /\ Len(blob.bytes) > MAX_RECOMMENDED_TX_SIZE
    /\ blob.bytes[1] # blob.bytes[Len(blob.bytes)]
    /\ Len(streamOps[2].bytes) = MAX_RECOMMENDED_TX_SIZE
    /\ Len(streamOps[3].bytes) < MAX_RECOMMENDED_TX_SIZE

\* C17: readBlobFromBinaryStream returns undefined when the stream cannot be
\* loaded, when it is not started, and when it is not ended while
\* allowUnfinished is not set; otherwise it returns a Blob of the stream's
\* chunks with the stream's mimeType.
C17_ReadBlobOrUndefined ==
    IF /\ readCall.available
       /\ Started(readCall.ops)
       /\ (Ended(readCall.ops) \/ readCall.allowUnfinished = "true")
    THEN readResult = [defined |-> TRUE, bytes |-> ChunkBytes(readCall.ops),
                       type |-> blob.type]
    ELSE readResult = UndefinedBlob

\* a stream that is not ended was read with allowUnfinished: a Blob of the
\* chunks it has so far
C17_Witness ==
    /\ readResult.defined
    /\ readCall.allowUnfinished = "true"
    /\ ~Ended(readCall.ops)
    /\ readResult.bytes # <<>>
    /\ readResult.bytes # blob.bytes


\* the entries of two payloads are the same, in whatever order they were
\* inserted
SameUpToKeyOrder(x, y) ==
    {x[i] : i \in 1..Len(x)} = {y[i] : i \in 1..Len(y)}

\* C18: a signature by a signer over a payload verifies under that signer's ID
\* for every payload with the same entries in any key order, and a signature
\* by another signer over the same payload does not verify under it
C18_SignVerify ==
    sigCase # NoSigCase =>
        /\ (sigCase.signer = sigCase.verifier
            /\ SameUpToKeyOrder(sigCase.signed, sigCase.verified))
               => sigCase.result
        /\ (sigCase.signer # sigCase.verifier
            /\ sigCase.verified = sigCase.signed)
               => ~sigCase.result

\* a payload was verified in the other key order than it was signed in, and
\* the same payload was signed by two signers
C18_Witness ==
    /\ sigCase # NoSigCase
    /\ sigCase.signer = sigCase.verifier
    /\ Len(sigCase.signed) = 2
    /\ sigCase.verified # sigCase.signed
    /\ SameUpToKeyOrder(sigCase.signed, sigCase.verified)
    /\ sigCase.result

C20_TransactionRoundTrip ==
    txCase # NoTxCase =>
        /\ (txCase.secret2 = txCase.secret
            /\ txCase.decryptNonce = txCase.nonce)
               => /\ txCase.result.outcome = "value"
                  /\ SameUpToKeyOrder(txCase.result.value, txCase.changes)
        /\ txCase.secret2 # txCase.secret
               => txCase.result = ReturnedUndefined

\* changes were decrypted with another key and the nonce material of the
\* encryption
C20_Witness ==
    /\ txCase # NoTxCase
    /\ txCase.secret2 # txCase.secret
    /\ txCase.decryptNonce = txCase.nonce
    /\ txCase.result = ReturnedUndefined


C22_HashIgnoresKeyOrder ==
    (hashCase # NoHashCase
     /\ SameUpToKeyOrder(hashCase.value, hashCase.value2))
        => /\ hashCase.secure = hashCase.secure2
           /\ hashCase.short = hashCase.short2

\* two values with the same entries in different orders were hashed
C22_Witness ==
    /\ hashCase # NoHashCase
    /\ hashCase.value # hashCase.value2
    /\ SameUpToKeyOrder(hashCase.value, hashCase.value2)
    /\ hashCase.secure = hashCase.secure2


\* the sessions that have pushed to the stream
Pushers == {s \in StreamSessions : items[s] # <<>>}

\* C23: when one session of one account has pushed v1..vn in that order, the
\* view's perSession entry of that session has all = <<v1..vn>> and last = vn,
\* the perAccount entry of its account shows the same, and me is the
\* perSession entry of the current session
C23_StreamViews ==
    \A s \in StreamSessions :
        (queriedStream # <<>> /\ Pushers = {s}) =>
            /\ queriedStream.perSession[s].all = pushLog
            /\ queriedStream.perSession[s].last = pushLog[Len(pushLog)]
            /\ queriedStream.perAccount[s[1]].all = pushLog
            /\ queriedStream.perAccount[s[1]].last = pushLog[Len(pushLog)]
            /\ queriedStream.me = queriedStream.perSession[currentSessionID]

\* the current session alone pushed two different values
C23_Witness ==
    /\ queriedStream # <<>>
    /\ Pushers = {currentSessionID}
    /\ Len(pushLog) = 2
    /\ pushLog[1] # pushLog[2]
    /\ queriedStream.me.last = pushLog[2]
    /\ queriedStream.me.all = pushLog

\* C24: after a local edit.set(key, value, "private"), get(key) is value
\* inside the edit and on the resulting map, and lastEditAt(key).by is the
\* account of the node
C24_LocalMapRoundTrip ==
    lastEdit # NoEdit =>
        /\ lastEdit.inside = lastEdit.value
        /\ MapGet(localMap, lastEdit.key) = lastEdit.value
        /\ lastEditAt(localMap, lastEdit.key).by = localAccount

\* a key was set a second time, to another value
C24_Witness ==
    /\ Len(localMap) = 2
    /\ localMap[1].key = localMap[2].key
    /\ localMap[1].value # localMap[2].value
    /\ MapGet(localMap, lastEdit.key) = lastEdit.value


\* the reconnect loop starts a reconnection wait in this step
WaitStarts == loopPc # "backoff" /\ loopPc' = "backoff"

\* every reconnection wait is min(2 * d, 30000) for the delay d before it and
\* leaves that as the delay, and the delay is changed by nothing but the start
\* of a wait and the reset of an "online" event
WaitsDoubleTheDelay ==
    /\ [][WaitStarts =>
            /\ waitDelay' = Min(2 * currentReconnectionTimeout,
                                MaxReconnectionTimeout)
            /\ currentReconnectionTimeout' = waitDelay']_vars
    /\ [][currentReconnectionTimeout' # currentReconnectionTimeout =>
            \/ WaitStarts
            \/ /\ onlineFired'
               /\ currentReconnectionTimeout' = initialReconnectionTimeout]_vars

\* C25, as stated: the waits are min(2 * d, 30000), only the waits and the
\* "online" resets change d, and d never decreases in a step that is not an
\* "online" event
C25_DelayNeverDecreases ==
    /\ WaitsDoubleTheDelay
    /\ [][~onlineFired' =>
            currentReconnectionTimeout' >= currentReconnectionTimeout]_vars

\* C25, amended: the waits are min(2 * d, 30000), only the waits and the
\* "online" resets change d, and a delay of at most 30000 never decreases in
\* a step that is not an "online" event; a larger one (a configured
\* reconnectionTimeout above 30000) is lowered to 30000 by the next wait
C25_DelayNeverDecreasesBelowCap ==
    /\ WaitsDoubleTheDelay
    /\ [][(~onlineFired'
           /\ currentReconnectionTimeout <= MaxReconnectionTimeout) =>
            currentReconnectionTimeout' >= currentReconnectionTimeout]_vars
    /\ [][(WaitStarts
           /\ currentReconnectionTimeout > MaxReconnectionTimeout) =>
            currentReconnectionTimeout' = MaxReconnectionTimeout]_vars

\* the second wait since the last reset, after a reconnection that succeeded:
\* it is twice the first one
C25_Witness ==
    /\ loopPc = "backoff"
    /\ ~onlineFired
    /\ waitDelay = 4 * initialReconnectionTimeout
    /\ waitDelay < MaxReconnectionTimeout
    /\ currentReconnectionTimeout = waitDelay


\* the places in inbound of the messages other than pings that arrived while
\* the stream was readable, in arrival order
SyncMessagesInArrivalOrder ==
    SelectSeq([i \in 1..Len(inbound) |-> i],
              LAMBDA i : inbound[i].type # "ping" /\ inbound[i].readable)

\* C26: no ping is delivered to the consumer of the incoming stream, and the
\* other messages that arrived while the stream was open are enqueued once
\* each, in arrival order
C26_PingsDroppedOthersEnqueued ==
    /\ \A k \in 1..Len(enqueued) : inbound[enqueued[k]].type # "ping"
    /\ enqueued = SyncMessagesInArrivalOrder

\* a message, a ping and another message arrived on the open stream: the two
\* messages are enqueued
C26_Witness ==
    /\ Len(inbound) = 3
    /\ inbound[1].type # "ping"
    /\ inbound[2].type = "ping"
    /\ inbound[3].type # "ping"
    /\ enqueued = <<1, 3>>


\* handle h makes a try in this step: its lock request is answered
Tries(h) ==
    /\ handle[h].pc = "trying"
    /\ <<handle'[h].pc, handle'[h].idx, handle'[h].retry>>
          # <<handle[h].pc, handle[h].idx, handle[h].retry>>

\* the lock of the slot handle h is at is held by nobody
SlotFree(h) ==
    ~ \E t \in locks : t[1] = handle[h].accountID /\ t[2] = handle[h].idx

\* C27: a handle tries the slots 0..99 in increasing order, none more than
\* twice; it acquires a lock only by a try, at most one in its lifetime, and
\* that is the lock of the first slot found free at the moment of the try; its
\* session promise is resolved at most once
C27_FirstFreeSlotOnce ==
    /\ [](\A h \in Handles :
             /\ handle[h].idx \in 0..(NumSlots - 1)
             /\ handle[h].retry \in 0..(NumRetries - 1))
    /\ [][\A h \in Handles :
             /\ (Tries(h) /\ handle'[h].pc = "trying") =>
                   /\ ~SlotFree(h)
                   /\ \/ /\ handle'[h].idx = handle[h].idx
                         /\ handle'[h].retry = handle[h].retry + 1
                      \/ /\ handle'[h].idx = handle[h].idx + 1
                         /\ handle'[h].retry = 0
             /\ (Tries(h) /\ SlotFree(h)) =>
                   /\ handle'[h].pc = "holding"
                   /\ {t \in locks' : t[3] = h}
                         = {<<handle[h].accountID, handle[h].idx, h>>}
             /\ {t \in locks' : t[3] = h} \ locks # {} =>
                   /\ Tries(h)
                   /\ SlotFree(h)
                   /\ {t \in locks : t[3] = h} = {}
             /\ handle[h].pc \in {"holding", "finished", "failed"} =>
                   handle'[h].pc \in {"holding", "finished", "failed", "none"}
             /\ handle[h].session # NoSession =>
                   \/ handle'[h].session = handle[h].session
                   \/ handle'[h] = NoHandle]_vars

\* a handle holds the lock of the last slot: it went through the 99 slots
\* before it, which the other tabs hold
C27_Witness ==
    \E h \in Handles :
        /\ handle[h].pc = "holding"
        /\ handle[h].idx = NumSlots - 1
        /\ handle[h].session # NoSession
        /\ <<handle[h].accountID, NumSlots - 1, h>> \in locks

\* C30: when the locks of all 100 slots of the account are held by others at
\* both tries of a handle on every slot, the handle's session promise is not
\* resolved, the handle mints and stores no session ID, and its task ends
\* with the error
C30_NoSlotNoSession ==
    /\ [][\A h \in Handles :
             (Tries(h) /\ ~SlotFree(h)) =>
                /\ handle'[h].session = NoSession
                /\ sessionStore' = sessionStore
                /\ nonce' = nonce
                /\ issued' = issued
                /\ (handle[h].idx = NumSlots - 1
                    /\ handle[h].retry = NumRetries - 1)
                      => handle'[h].pc = "failed"]_vars
    /\ [](\A h \in Handles :
             handle[h].pc = "failed" =>
                /\ handle[h].session = NoSession
                /\ {t \in locks : t[3] = h} = {})

\* a handle's task ended with the error while the other handle of the tab
\* holds the last slot
C30_Witness ==
    \E h, g \in Handles :
        /\ handle[h].pc = "failed"
        /\ handle[h].session = NoSession
        /\ handle[g].pc = "holding"
        /\ handle[g].idx = NumSlots - 1


\* the registered peers whose id holds the sync address
WebSocketPeers == {p \in peers : p # 0}

\* C28: at most one websocket peer for the sync address is registered in the
\* sync manager at any moment, and one is added only when none is registered
C28_OneWebSocketPeer ==
    /\ [](Cardinality(WebSocketPeers) <= 1)
    /\ [][\A p \in peers' \ peers : p # 0 => WebSocketPeers = {}]_vars

\* the first websocket peer is gone and the reconnect loop has registered
\* another one after a wait
C28_Witness ==
    /\ loopPc = "poll"
    /\ Cardinality(WebSocketPeers) = 1
    /\ currentReconnectionTimeout > initialReconnectionTimeout


\* C29: once done() of the node handle has been called, no websocket peer is
\* created and added to the sync manager
C29_NoPeerAfterDone ==
    [][nodeDone => \A p \in peers' \ peers : p = 0]_vars


C32_EveryMessageSentOnce ==
    /\ \A k \in 1..Len(sent) : sent[k].msg = k
    /\ wsState = "closed" =>
          /\ Len(sent) = written
          /\ \A k \in 1..Len(sent) : sent[k].taken

\* C32, amended: no message is handed to ws.send twice or out of write order;
\* the messages written before "open" wait in the queue, in write order, and
\* are handed over in that order at "open", before any message written later;
\* from then on every message written has been handed over
C32_SentInOrderOnceOpen ==
    /\ Len(sent) <= written
    /\ \A k \in 1..Len(sent) : sent[k].msg = k
    /\ ~isOpen =>
          /\ sent = <<>>
          /\ initialQueue = [k \in 1..written |-> k]
    /\ isOpen =>
          /\ Len(sent) = written
          /\ \A k \in 1..Len(initialQueue) : sent[k].taken

\* two messages were written before "open" and one after: the socket took
\* the three in write order
C32_Witness ==
    /\ isOpen
    /\ Len(initialQueue) = 2
    /\ written = 3
    /\ Len(sent) = 3
    /\ \A k \in 1..3 : sent[k].taken


\* C33: a log-in attempt that failed (LocalNode.withLoadedAccount rejected in
\* logIn or logInAs) leaves the logged-in entry of the device storage as it
\* was before the attempt. The driver has logIn only when createNode found no
\* entry, so after a first attempt that failed, and no other call, there is
\* still none, and a later createNode does not load the account by itself.
C33_FailedLogInLeavesStorage ==
    (/\ call[1].pc = "failed"
     /\ \A d \in Calls \ {1} : call[d].pc = "idle")
        => loggedIn = 0


\* C35: in one createNode call driver.onSignedIn is invoked once, and only
\* when a node has been obtained; with stored credentials (createNode itself
\* asked for the session) driver.onReady is never invoked, and without them
\* it is invoked once, before onSignedIn.
C35_CallbacksOnce ==
    /\ onSignedInCount <= 1
    /\ onSignedInCount > 0 <=> cnPc = "resolved"
    /\ cnHandle # 0 => onReadyCount = 0
    /\ (cnPc # "notCalled" /\ cnHandle = 0) => onReadyCount = 1


\* C36: consumeInviteLinkFromWindowLocation. When the URL of the window is
\* not a well-formed invite link (parseInviteLink returns undefined for it),
\* the promise resolves with undefined, acceptInvite is not called and the
\* URL stays as it was. When it is one, acceptInvite is called once with the
\* parsed valueID and inviteSecret and the URL stays as it was while the call
\* is pending and when it rejects, which rejects the promise; when the call
\* succeeds the promise resolves with the parsed valueID and inviteSecret and
\* the URL is the one the window was opened with up to its "#".
C36_ConsumeInviteLink ==
    LET parsed == parseInviteLink(navigated)
        wellFormed == parsed # UndefinedResult
        n == Len(windowHref)
    IN  /\ consumePc \in {"none", "loaded"} =>
               acceptInviteCalls = <<>> /\ windowHref = Href(navigated)
        /\ (consumePc \notin {"none", "loaded"} /\ ~wellFormed) =>
               /\ consumePc = "resolved"
               /\ consumeResult = UndefinedResult
               /\ acceptInviteCalls = <<>>
               /\ windowHref = Href(navigated)
        /\ (consumePc \notin {"none", "loaded"} /\ wellFormed) =>
               acceptInviteCalls = <<<<parsed.valueID, parsed.inviteSecret>>>>
        /\ consumePc \in {"accepting", "rejected"} =>
               wellFormed /\ windowHref = Href(navigated)
        /\ (consumePc = "resolved" /\ wellFormed) =>
               /\ consumeResult.valueID = parsed.valueID
               /\ consumeResult.inviteSecret = parsed.inviteSecret
               /\ \A i \in 1..n : windowHref[i] # "#"
               /\ n < Len(navigated)
               /\ SubSeq(navigated, 1, n) = windowHref
               /\ navigated[n + 1] = "#"

\* a link with a hint that holds a "#" was accepted: the promise resolved and
\* the URL lost its fragment
C36_Witness ==
    /\ consumePc = "resolved"
    /\ consumeResult # UndefinedResult
    /\ Len(acceptInviteCalls) = 1
    /\ Len(navigated) - Len(windowHref) > Len(createInviteLink(ValueID, InviteSecret, <<>>, UndefinedStr))
    /\ \E i \in 1..Len(consumeResult.valueHint) : consumeResult.valueHint[i] = "#"

\* a window opened with a URL that is no invite link: the promise resolved
\* with undefined
C36_UndefinedWitness ==
    /\ consumePc = "resolved"
    /\ consumeResult = UndefinedResult
    /\ acceptInviteCalls = <<>>
    /\ FirstHash(navigated) # 0

\* acceptInvite rejected: the promise rejected and the URL kept its fragment
C36_RejectedWitness ==
    /\ consumePc = "rejected"
    /\ FirstHash(windowHref) # 0

====
